---- MODULE Spec2Model ----
(***************************************************************************)
(* Model of the XML upload services of openimis-be-tools_py                *)
(* (tools/services.py): upload_simple_data, upload_locations and           *)
(* upload_health_facilities reconciling parsed entries against versioned   *)
(* tables (validity_to IS NULL = valid row, save_history() rows carry a    *)
(* validity_to timestamp and a legacy_id).                                 *)
(***************************************************************************)
EXTENDS Integers, Sequences, FiniteSets, TLC

(* ------------------------------ bounds -------------------------------- *)
\* longest list of parsed entries / XML elements handed to one upload
MaxEntries == 2
\* number of upload requests served in one behaviour
MaxCalls == 2
\* longest list of XML elements handed to a parser on its own
MaxElements == 3
\* longest list of codes and largest chunk size of a chunked lookup on its own
MaxIds == 5
MaxChunkSize == 2

(* ------------------------ constants of the code ----------------------- *)
STRATEGY_INSERT == "INSERT"
STRATEGY_UPDATE == "UPDATE"
STRATEGY_INSERT_UPDATE == "INSERT_UPDATE"
STRATEGY_INSERT_UPDATE_DELETE == "INSERT_UPDATE_DELETE"

Strategies ==
  {STRATEGY_INSERT, STRATEGY_UPDATE, STRATEGY_INSERT_UPDATE, STRATEGY_INSERT_UPDATE_DELETE}

\* SQL NULL / Python None of a text or timestamp column
NULL == "NULL"

(* --------------------------- input universes -------------------------- *)
\* codes of the uploaded entries; the seeded table also holds a code "C" no upload names
Codes == {"A", "B"}
\* id_for_audit of the users that upload
Users == {1, 2}
\* parser-stage error lists handed over in context.parsing_errors
ParsingErrorLists == {<<>>, <<"Item 'x': code is invalid. Must be between 1 and 6 characters">>}

\* the value datetime.now() yields during the n-th request
Timestamp(n) == "t" \o ToString(n)

VARIABLES
  items,          \* rows of the table behind context.object_manager, index = primary key
  locations,      \* rows of Location, index = primary key
  user_districts, \* rows of UserDistrict
  health_facilities, \* rows of HealthFacility, index = primary key
  pricelists,     \* rows of ServicesPricelist ("services") and ItemsPricelist ("items")
  parent_cache,   \* memo of get_parent_location (functools.lru_cache): code -> primary key
  pricelist_cache, \* memo of get_pricelist (functools.lru_cache): <<name, type>> -> primary key
  call,           \* the upload request being served (NoCall when idle)
  result,         \* UploadResult of the request being served
  raised,         \* exception the request being served ended with ("none": it returned)
  writes,         \* store writes issued by the request being served, in order
  ncalls,         \* requests served so far
  inflight        \* upload_simple_data requests between their existence lookup and their loop

vars ==
  <<items, locations, user_districts, health_facilities, pricelists, parent_cache,
    pricelist_cache, call, result, raised, writes, ncalls, inflight>>

\* the tables the uploads write to
store == <<items, locations, user_districts, health_facilities>>

NoCall == [op |-> "none"]

\* UploadResult(errors=errors): sent, created, updated, deleted default to 0
UploadResult(errors) ==
  [errors |-> errors, sent |-> 0, created |-> 0, updated |-> 0, deleted |-> 0]

NoResult == UploadResult(<<>>)

(* ------------------------------ the store ------------------------------ *)
\* filter_validity(): validity_to IS NULL
IsValid(row) == row.validity_to = NULL

\* primary keys of the valid rows of a table
ValidIds(table) == {i \in 1..Len(table) : IsValid(table[i])}

\* primary keys of the valid rows of a table that carry the code
ValidIdsOf(table, code) == {i \in ValidIds(table) : table[i].code = code}

Max(S) == CHOOSE m \in S : \A n \in S : n <= m

Min(S) == CHOOSE m \in S : \A n \in S : m <= n

\* {x.code: x for x in manager.filter(code__in=codes, *filter_validity())}:
\* rows come in primary-key order, a later row of a code replaces an earlier one
FetchByCode(table, codes) ==
  LET found == {c \in codes : ValidIdsOf(table, c) # {}}
  IN  [c \in found |->
         LET i == Max(ValidIdsOf(table, c)) IN [id |-> i, obj |-> table[i]]]

\* manager.create(audit_user_id=..., **entry): columns the entry does not name
\* take their default (NULL); the new row is valid and has no legacy_id (0)
NewItemRow(entry, audit_user_id) ==
  [code |-> entry.code,
   name |-> entry.name,
   frequency |-> IF "frequency" \in DOMAIN entry THEN entry.frequency ELSE NULL,
   validity_to |-> NULL,
   audit_user_id |-> audit_user_id,
   legacy_id |-> 0]

\* mutant: the record is replaced by the entry, the optional column the entry
\* does not name falls back to its default
SetAttrs_FullReplace(obj, entry) ==
  [f \in DOMAIN obj |->
     IF f \in DOMAIN entry THEN entry[f]
     ELSE IF f = "frequency" THEN NULL
     ELSE obj[f]]

\* [setattr(existing, key, entry[key]) for key in entry]
SetAttrs(obj, entry) ==
  [f \in DOMAIN obj |-> IF f \in DOMAIN entry THEN entry[f] ELSE obj[f]]

\* VersionedModel.save_history(): a copy of the in-memory object is inserted as a
\* new row with validity_to = now and legacy_id = the object's primary key
HistoryRow(existing, now) ==
  [existing.obj EXCEPT !.validity_to = now, !.legacy_id = existing.id]

\* the store raises on the write of a row of this code (constraint violation);
\* no write is issued in a dry run
StoreRejects(ctx, code) == ~ctx.dry_run /\ ctx.failing = code

(* --------------------------- upload_simple_data ------------------------ *)
AlreadyExists(label, code) == label \o " '" \o code \o "' already exists"

DoesNotExist(label, code) == label \o " '" \o code \o "' does not exist"

\* mutant: created is counted inside `if not context.dry_run`
SimpleCreate_CountsOnlyWrites(st, ctx, entry) ==
  LET row == NewItemRow(entry, ctx.user)
  IN  IF ctx.dry_run THEN st
      ELSE IF StoreRejects(ctx, entry.code) THEN [st EXCEPT !.raised = "IntegrityError"]
      ELSE [st EXCEPT
              !.rows = Append(@, row),
              !.w = Append(@, [op |-> "create", id |-> Len(st.rows) + 1, row |-> row]),
              !.res.created = @ + 1]

\* context.object_manager.create(...) unless dry run; result.created += 1;
\* an exception of create() leaves the function
SimpleCreate(st, ctx, entry) ==
  LET row == NewItemRow(entry, ctx.user)
      st1 == IF ctx.dry_run THEN st
             ELSE [st EXCEPT
                     !.rows = Append(@, row),
                     !.w = Append(@, [op |-> "create", id |-> Len(st.rows) + 1, row |-> row])]
  IN  IF StoreRejects(ctx, entry.code) THEN [st EXCEPT !.raised = "IntegrityError"]
      ELSE [st1 EXCEPT !.res.created = @ + 1]

\* mutant: the update is not counted
SimpleUpdate_NoCount(st, ctx, entry) ==
  LET existing == st.db[entry.code]
      histo == HistoryRow(existing, ctx.now)
      changed == SetAttrs(existing.obj, entry)
      snap == [st EXCEPT
                 !.rows = Append(@, histo),
                 !.db[entry.code].obj = changed,
                 !.w = Append(@, [op |-> "save_history", id |-> Len(st.rows) + 1,
                                  row |-> histo])]
      saved == [snap EXCEPT
                  !.rows[existing.id] = changed,
                  !.w = Append(@, [op |-> "save", id |-> existing.id, row |-> changed])]
  IN  IF ctx.dry_run THEN st
      ELSE IF StoreRejects(ctx, entry.code) THEN [snap EXCEPT !.raised = "IntegrityError"]
      ELSE saved

\* mutant: save_history() is called after the fields were overwritten
SimpleUpdate_SnapshotAfterSetattr(st, ctx, entry) ==
  LET existing == st.db[entry.code]
      histo == HistoryRow([existing EXCEPT !.obj = SetAttrs(existing.obj, entry)], ctx.now)
      changed == SetAttrs(existing.obj, entry)
      snap == [st EXCEPT
                 !.rows = Append(@, histo),
                 !.db[entry.code].obj = changed,
                 !.w = Append(@, [op |-> "save_history", id |-> Len(st.rows) + 1,
                                  row |-> histo])]
      saved == [snap EXCEPT
                  !.rows[existing.id] = changed,
                  !.w = Append(@, [op |-> "save", id |-> existing.id, row |-> changed])]
  IN  IF ctx.dry_run THEN [st EXCEPT !.res.updated = @ + 1]
      ELSE IF StoreRejects(ctx, entry.code) THEN [snap EXCEPT !.raised = "IntegrityError"]
      ELSE [saved EXCEPT !.res.updated = @ + 1]

\* existing.save_history(); setattr...; existing.save() unless dry run;
\* result.updated += 1; an exception of save() leaves the function after the
\* history row was written
SimpleUpdate(st, ctx, entry) ==
  LET existing == st.db[entry.code]
      histo == HistoryRow(existing, ctx.now)
      changed == SetAttrs(existing.obj, entry)
      snap == [st EXCEPT
                 !.rows = Append(@, histo),
                 !.db[entry.code].obj = changed,
                 !.w = Append(@, [op |-> "save_history", id |-> Len(st.rows) + 1,
                                  row |-> histo])]
      saved == [snap EXCEPT
                  !.rows[existing.id] = changed,
                  !.w = Append(@, [op |-> "save", id |-> existing.id, row |-> changed])]
  IN  IF ctx.dry_run THEN [st EXCEPT !.res.updated = @ + 1]
      ELSE IF StoreRejects(ctx, entry.code) THEN [snap EXCEPT !.raised = "IntegrityError"]
      ELSE [saved EXCEPT !.res.updated = @ + 1]

\* mutant: the existence check of INSERT is made for the wrong strategy
InsertRejects_WrongStrategy(existing, strategy) == existing /\ strategy = STRATEGY_UPDATE

\* `if existing and context.strategy == STRATEGY_INSERT`
InsertRejects(existing, strategy) == existing /\ strategy = STRATEGY_INSERT

\* mutant: a missing record is rejected under every strategy but INSERT
UpdateRejects_AllButInsert(existing, strategy) == ~existing /\ strategy # STRATEGY_INSERT

\* `elif not existing and context.strategy == STRATEGY_UPDATE`
UpdateRejects(existing, strategy) == ~existing /\ strategy = STRATEGY_UPDATE

\* mutant: the message names the code left from the previous iteration
MissingCode_Stale(st, entry) ==
  IF Len(st.ids) > 0 THEN st.ids[Len(st.ids)] ELSE entry.code

\* the code the 'does not exist' message names: entry['code']
MissingCode(st, entry) == entry.code

\* body of `for entry in context.parsed_entries`
SimpleProcessEntry(st, ctx, entry) ==
  LET existing == entry.code \in DOMAIN st.db
      st1 == [st EXCEPT !.res.sent = @ + 1, !.ids = Append(@, entry.code)]
  IN  IF InsertRejects(existing, ctx.strategy)
        THEN [st1 EXCEPT !.res.errors =
                Append(@, AlreadyExists(ctx.log_string_sg, st.db[entry.code].obj.code))]
      ELSE IF UpdateRejects(existing, ctx.strategy)
        THEN [st1 EXCEPT !.res.errors =
                Append(@, DoesNotExist(ctx.log_string_sg, MissingCode(st, entry)))]
      ELSE IF ctx.strategy = STRATEGY_INSERT THEN SimpleCreate(st1, ctx, entry)
      ELSE IF existing THEN SimpleUpdate(st1, ctx, entry)
      ELSE SimpleCreate(st1, ctx, entry)

RECURSIVE SimpleLoop_Reversed(_, _, _)
\* mutant: the entries are processed from the last to the first
SimpleLoop_Reversed(st, ctx, i) ==
  IF i > Len(ctx.parsed_entries) \/ st.raised # "none" THEN st
  ELSE SimpleLoop_Reversed(
         SimpleProcessEntry(st, ctx, ctx.parsed_entries[Len(ctx.parsed_entries) + 1 - i]),
         ctx, i + 1)

RECURSIVE SimpleLoop(_, _, _)
SimpleLoop(st, ctx, i) ==
  IF i > Len(ctx.parsed_entries) \/ st.raised # "none" THEN st
  ELSE SimpleLoop(SimpleProcessEntry(st, ctx, ctx.parsed_entries[i]), ctx, i + 1)

\* mutant: the sweep spares the codes fetched from the table, not the codes sent
SimpleSweep_SparesFetched(st, ctx) ==
  IF ctx.strategy # STRATEGY_INSERT_UPDATE_DELETE THEN st
  ELSE
    LET qs == {i \in ValidIds(st.rows) : st.rows[i].code \notin DOMAIN st.db}
        st1 == [st EXCEPT !.res.deleted = Cardinality(qs)]
    IN  IF ctx.dry_run THEN st1
        ELSE [st1 EXCEPT
                !.rows = [i \in 1..Len(st.rows) |->
                            IF i \in qs
                              THEN [st.rows[i] EXCEPT !.validity_to = ctx.now,
                                                      !.audit_user_id = ctx.user]
                              ELSE st.rows[i]],
                !.w = Append(@, [op |-> "update", ids |-> qs,
                                 validity_to |-> ctx.now, audit_user_id |-> ctx.user])]

\* mutant: the sweep also spares the codes of the elements the parser rejected
SimpleSweep_SparesMentioned(st, ctx) ==
  IF ctx.strategy # STRATEGY_INSERT_UPDATE_DELETE THEN st
  ELSE
    LET mentioned == IF "xml" \in DOMAIN ctx
                       THEN {ctx.xml[k].code : k \in 1..Len(ctx.xml)} ELSE {}
        present == {st.ids[k] : k \in 1..Len(st.ids)} \cup mentioned
        qs == {i \in ValidIds(st.rows) : st.rows[i].code \notin present}
        st1 == [st EXCEPT !.res.deleted = Cardinality(qs)]
    IN  IF ctx.dry_run THEN st1
        ELSE [st1 EXCEPT
                !.rows = [i \in 1..Len(st.rows) |->
                            IF i \in qs
                              THEN [st.rows[i] EXCEPT !.validity_to = ctx.now,
                                                      !.audit_user_id = ctx.user]
                              ELSE st.rows[i]],
                !.w = Append(@, [op |-> "update", ids |-> qs,
                                 validity_to |-> ctx.now, audit_user_id |-> ctx.user])]

\* mutant: the sweep deletes the rows instead of setting validity_to
SimpleSweep_HardDeletes(st, ctx) ==
  IF ctx.strategy # STRATEGY_INSERT_UPDATE_DELETE THEN st
  ELSE
    LET present == {st.ids[k] : k \in 1..Len(st.ids)}
        qs == {i \in ValidIds(st.rows) : st.rows[i].code \notin present}
        st1 == [st EXCEPT !.res.deleted = Cardinality(qs)]
        Keep(row) == ~(IsValid(row) /\ row.code \notin present)
    IN  IF ctx.dry_run THEN st1
        ELSE [st1 EXCEPT
                !.rows = SelectSeq(st.rows, Keep),
                !.w = Append(@, [op |-> "update", ids |-> qs,
                                 validity_to |-> ctx.now, audit_user_id |-> ctx.user])]

\* the sweep of STRATEGY_INSERT_UPDATE_DELETE:
\* qs = manager.filter(~Q(code__in=ids)).filter(validity_to__isnull=True);
\* result.deleted = len(qs); qs.update(validity_to=now, audit_user_id=...) unless dry run
SimpleSweep(st, ctx) ==
  IF ctx.strategy # STRATEGY_INSERT_UPDATE_DELETE THEN st
  ELSE
    LET present == {st.ids[k] : k \in 1..Len(st.ids)}
        qs == {i \in ValidIds(st.rows) : st.rows[i].code \notin present}
        st1 == [st EXCEPT !.res.deleted = Cardinality(qs)]
    IN  IF ctx.dry_run THEN st1
        ELSE [st1 EXCEPT
                !.rows = [i \in 1..Len(st.rows) |->
                            IF i \in qs
                              THEN [st.rows[i] EXCEPT !.validity_to = ctx.now,
                                                      !.audit_user_id = ctx.user]
                              ELSE st.rows[i]],
                !.w = Append(@, [op |-> "update", ids |-> qs,
                                 validity_to |-> ctx.now, audit_user_id |-> ctx.user])]

\* mutant: the existence lookup is made again on the table as it is when the loop
\* starts, the entries fetched before are dropped
SimpleReconcile_Refetches(rows, db, ctx) ==
  LET codes == {ctx.parsed_entries[k].code : k \in 1..Len(ctx.parsed_entries)}
      st0 == [rows |-> rows,
              db |-> FetchByCode(rows, codes),
              res |-> UploadResult(ctx.parsing_errors),
              ids |-> <<>>,
              raised |-> "none",
              w |-> <<>>]
      looped == SimpleLoop(st0, ctx, 1)
  IN  IF looped.raised # "none" THEN looped ELSE SimpleSweep(looped, ctx)

\* upload_simple_data from `for entry in context.parsed_entries` on: the loop and
\* the sweep run on the table as it is now, with the db_entries fetched before
SimpleReconcile(rows, db, ctx) ==
  LET st0 == [rows |-> rows,
              db |-> db,
              res |-> UploadResult(ctx.parsing_errors),
              ids |-> <<>>,
              raised |-> "none",
              w |-> <<>>]
      looped == SimpleLoop(st0, ctx, 1)
  IN  IF looped.raised # "none" THEN looped ELSE SimpleSweep(looped, ctx)

\* db_entries = {x.code: x for x in manager.filter(code__in=[codes], *filter_validity())}
DbEntries(rows, ctx) ==
  FetchByCode(rows, {ctx.parsed_entries[k].code : k \in 1..Len(ctx.parsed_entries)})

\* upload_simple_data(user, context) on the table `rows`
upload_simple_data(rows, ctx) == SimpleReconcile(rows, DbEntries(rows, ctx), ctx)

(* ----------------------------- upload_locations ----------------------- *)
\* str.lower() on the codes the model uploads
Lower(code) ==
  CASE code = "R1" -> "r1"
    [] code = "R2" -> "r2"
    [] code = "D1" -> "d1"
    [] code = "D2" -> "d2"
    [] code = "W1" -> "w1"
    [] code = "V1" -> "v1"
    [] code = "A" -> "a"
    [] code = "B" -> "b"
    [] code = "ABCDEFG" -> "abcdefg"
    [] OTHER -> code

\* the type letter load_locations_xml derives from the element's tag
LocationType(tag) ==
  CASE tag = "Region" -> "R"
    [] tag = "District" -> "D"
    [] tag = "Municipality" -> "W"
    [] tag = "Village" -> "V"

\* the child elements get_xml_element must find in an element of the tag
RequiredFields(tag) ==
  IF tag = "Region" THEN {"code", "name"} ELSE {"code", "name", "parent"}

\* chain(regions, districts, villages, municipalities)
AllLocations(xml) ==
  xml.Regions \o xml.Districts \o xml.Villages \o xml.Municipalities

\* body of `for elm in all_locations` once every field was read
LoadLocation(acc, elm) ==
  LET type == LocationType(elm.tag)
      data == IF elm.tag = "Region"
                THEN [type |-> type, code |-> elm.code, name |-> elm.name]
                ELSE [type |-> type, parent |-> elm.parent,
                      code |-> elm.code, name |-> elm.name]
      acc1 == IF data.code = ""
                THEN [acc EXCEPT !.errors = Append(@, "Location has no code")]
                ELSE acc
  IN  IF \E k \in 1..Len(acc1.ids) : acc1.ids[k] = Lower(data.code)
        THEN [acc1 EXCEPT !.errors =
                Append(@, "Code '" \o data.code \o "' already exists in the list")]
        ELSE [acc1 EXCEPT
                !.ids = Append(@, Lower(data.code)),
                !.keys = IF \E k \in 1..Len(@) : @[k] = type THEN @ ELSE Append(@, type),
                !.result[type] = Append(@, data)]

RECURSIVE LoadLocationsLoop(_, _, _)
LoadLocationsLoop(acc, elms, i) ==
  IF i > Len(elms) THEN acc
  ELSE IF ~(RequiredFields(elms[i].tag) \subseteq DOMAIN elms[i])
    \* get_xml_element: elm.find(..) is None, .text raises AttributeError
    THEN [acc EXCEPT !.raised = "AttributeError"]
  ELSE LoadLocationsLoop(LoadLocation(acc, elms[i]), elms, i + 1)

\* load_locations_xml(xml): result is a defaultdict(list) keyed by type, `keys`
\* holds its keys in insertion order
load_locations_xml(xml) ==
  LoadLocationsLoop(
    [result |-> [t \in {"R", "D", "W", "V"} |-> <<>>], keys |-> <<>>,
     errors |-> <<>>, ids |-> <<>>, raised |-> "none"],
    AllLocations(xml), 1)

RECURSIVE ChainValues(_, _, _)
\* chain.from_iterable(locations.values())
ChainValues(by_type, keys, i) ==
  IF i > Len(keys) THEN <<>>
  ELSE by_type[keys[i]] \o ChainValues(by_type, keys, i + 1)

\* default size of __chunk_list
ChunkSize == 1000

RECURSIVE ChunkList_DropsTail(_, _)
\* mutant: a last chunk shorter than size is not yielded
ChunkList_DropsTail(l, size) ==
  IF Len(l) < size THEN <<>>
  ELSE <<SubSeq(l, 1, size)>> \o ChunkList_DropsTail(SubSeq(l, size + 1, Len(l)), size)

RECURSIVE ChunkList(_, _)
\* __chunk_list(l, size): (l[index:index + size] for index in range(0, len(l), size))
ChunkList(l, size) ==
  IF Len(l) = 0 THEN <<>>
  ELSE IF Len(l) <= size THEN <<l>>
  ELSE <<SubSeq(l, 1, size)>> \o ChunkList(SubSeq(l, size + 1, Len(l)), size)

RECURSIVE UpdateFromChunks(_, _, _, _)
\* for ids_chunk in __chunk_list(ids): existing_locations.update({loc.code: loc ...})
UpdateFromChunks(table, existing, chunks, i) ==
  IF i > Len(chunks) THEN existing
  ELSE
    LET found == FetchByCode(table, {chunks[i][k] : k \in 1..Len(chunks[i])})
        merged == [c \in DOMAIN existing \cup DOMAIN found |->
                     IF c \in DOMAIN found THEN found[c] ELSE existing[c]]
    IN  UpdateFromChunks(table, merged, chunks, i + 1)

EmptyCache == [c \in {} |-> 0]

\* mutant: the memo of the earlier calls is kept
CacheClear_Keeps(cache) == cache

\* get_parent_location.cache_clear(): the memo after the call
CacheClear(cache) == EmptyCache

\* Location.objects.filter(code=code, *filter_validity()).first():
\* primary key of the row found, 0 for None
FirstValidLocation(table, code) ==
  IF ValidIdsOf(table, code) = {} THEN 0 ELSE Min(ValidIdsOf(table, code))

\* get_parent_location(code) under functools.lru_cache(None): the cache after the call
CacheParent(cache, table, code) ==
  IF code \in DOMAIN cache THEN cache
  ELSE [c \in DOMAIN cache \cup {code} |->
          IF c = code THEN FirstValidLocation(table, code) ELSE cache[c]]

\* Location.objects.create(audit_user_id=..., **loc)
NewLocationRow(loc, audit_user_id) ==
  [code |-> loc.code,
   name |-> loc.name,
   type |-> loc.type,
   parent |-> IF "parent" \in DOMAIN loc THEN loc.parent ELSE 0,
   validity_to |-> NULL,
   audit_user_id |-> audit_user_id,
   legacy_id |-> 0]

\* UserDistrict.objects.get_or_create(user=user.i_user, location=location, audit_user_id=...)
GetOrCreateUserDistrict(st, ctx, location_id) ==
  LET ud == [user |-> ctx.user, location |-> location_id, audit_user_id |-> ctx.user]
  IN  IF \E k \in 1..Len(st.uds) : st.uds[k] = ud THEN st
      ELSE [st EXCEPT !.uds = Append(@, ud),
                      !.w = Append(@, [op |-> "create_user_district", row |-> ud])]

\* Location.objects.create(...) and the UserDistrict of a district unless dry run;
\* result.created += 1; an exception of create() leaves the function
LocationCreate(st, ctx, loc) ==
  LET row == NewLocationRow(loc, ctx.user)
      id == Len(st.rows) + 1
      st1 == [st EXCEPT !.rows = Append(@, row),
                        !.w = Append(@, [op |-> "create", id |-> id, row |-> row])]
      st2 == IF row.type = "D" THEN GetOrCreateUserDistrict(st1, ctx, id) ELSE st1
  IN  IF StoreRejects(ctx, loc.code) THEN [st EXCEPT !.raised = "IntegrityError"]
      ELSE [(IF ctx.dry_run THEN st ELSE st2) EXCEPT !.res.created = @ + 1]

\* mutant: under INSERT_UPDATE_DELETE the existing location is archived
LocationUpdate_ArchivesUnderDelete(st, ctx, loc) ==
  LET existing == st.db[loc.code]
      histo == HistoryRow(existing, ctx.now)
      changed == SetAttrs(existing.obj, loc)
      archived == [changed EXCEPT !.validity_to =
                     IF ctx.strategy = STRATEGY_INSERT_UPDATE_DELETE THEN ctx.now ELSE @]
      snap == [st EXCEPT
                 !.rows = Append(@, histo),
                 !.db[loc.code].obj = changed,
                 !.w = Append(@, [op |-> "save_history", id |-> Len(st.rows) + 1,
                                  row |-> histo])]
      saved == [snap EXCEPT
                  !.rows[existing.id] = archived,
                  !.w = Append(@, [op |-> "save", id |-> existing.id, row |-> archived])]
  IN  IF ctx.dry_run THEN [st EXCEPT !.res.updated = @ + 1]
      ELSE IF StoreRejects(ctx, loc.code) THEN [snap EXCEPT !.raised = "IntegrityError"]
      ELSE [saved EXCEPT !.res.updated = @ + 1]

\* existing.save_history(); setattr...; existing.save() unless dry run;
\* result.updated += 1; an exception of save() leaves the function after the
\* history row was written
LocationUpdate(st, ctx, loc) ==
  LET existing == st.db[loc.code]
      histo == HistoryRow(existing, ctx.now)
      changed == SetAttrs(existing.obj, loc)
      snap == [st EXCEPT
                 !.rows = Append(@, histo),
                 !.db[loc.code].obj = changed,
                 !.w = Append(@, [op |-> "save_history", id |-> Len(st.rows) + 1,
                                  row |-> histo])]
      saved == [snap EXCEPT
                  !.rows[existing.id] = changed,
                  !.w = Append(@, [op |-> "save", id |-> existing.id, row |-> changed])]
  IN  IF ctx.dry_run THEN [st EXCEPT !.res.updated = @ + 1]
      ELSE IF StoreRejects(ctx, loc.code) THEN [snap EXCEPT !.raised = "IntegrityError"]
      ELSE [saved EXCEPT !.res.updated = @ + 1]

\* mutant: every strategy but UPDATE creates, also when the location exists
LocationApply_CreatesUnlessUpdate(st, ctx, loc) ==
  IF ctx.strategy # STRATEGY_UPDATE \/ loc.code \notin DOMAIN st.db
    THEN LocationCreate(st, ctx, loc)
    ELSE LocationUpdate(st, ctx, loc)

\* `if strategy == STRATEGY_INSERT or not existing: ... elif existing: ...`
LocationApply(st, ctx, loc) ==
  IF ctx.strategy = STRATEGY_INSERT \/ loc.code \notin DOMAIN st.db
    THEN LocationCreate(st, ctx, loc)
    ELSE LocationUpdate(st, ctx, loc)

\* body of `for loc in locations`
LocationProcess(st, ctx, loc) ==
  LET existing == loc.code \in DOMAIN st.db
      st1 == [st EXCEPT !.res.sent = @ + 1]
  IN  IF existing /\ ctx.strategy = STRATEGY_INSERT
        THEN [st1 EXCEPT !.res.errors =
                Append(@, st.db[loc.code].obj.code \o " already exists")]
      ELSE IF ~existing /\ ctx.strategy = STRATEGY_UPDATE
        THEN [st1 EXCEPT !.res.errors = Append(@, loc.code \o " does not exist")]
      ELSE IF "parent" \in DOMAIN loc /\ loc.parent # ""
        THEN
          LET parent_code == loc.parent
              cache == CacheParent(st1.cache, st1.rows, parent_code)
              parent == cache[parent_code]
              st2 == [st1 EXCEPT !.cache = cache]
          IN  IF parent = 0
                THEN [st2 EXCEPT !.res.errors =
                        Append(@, "Parent " \o parent_code \o " does not exist")]
                ELSE LocationApply(st2, ctx, [loc EXCEPT !.parent = parent])
      ELSE LocationApply(st1, ctx, loc)

RECURSIVE LocationsLoop(_, _, _, _)
LocationsLoop(st, ctx, locs, i) ==
  IF i > Len(locs) \/ st.raised # "none" THEN st
  ELSE LocationsLoop(LocationProcess(st, ctx, locs[i]), ctx, locs, i + 1)

\* upload_locations(user, xml, strategy, dry_run) on the tables `rows` and `uds`
upload_locations(rows, uds, cache, ctx) ==
  LET loaded == load_locations_xml(ctx.xml)
      locs == ChainValues(loaded.result, loaded.keys, 1)
      ids == [k \in 1..Len(locs) |-> locs[k].code]
      st0 == [rows |-> rows,
              uds |-> uds,
              db |-> UpdateFromChunks(rows, [c \in {} |-> 0], ChunkList(ids, ChunkSize), 1),
              \* get_parent_location.cache_clear()
              cache |-> CacheClear(cache),
              res |-> UploadResult(loaded.errors),
              raised |-> "none",
              w |-> <<>>]
  IN  IF loaded.raised # "none"
        \* raise InvalidXMLError("XML file is invalid.") from exc
        THEN [rows |-> rows, uds |-> uds, cache |-> cache, res |-> NoResult,
              raised |-> "InvalidXMLError", w |-> <<>>]
        ELSE LocationsLoop(st0, ctx, locs, 1)

(* ------------- parsers of diagnoses, medical items and services -------- *)
\* any([res["code"].lower() == code.lower() for res in result])
AnyCodeIgnoringCase(entries, code) ==
  \E k \in 1..Len(entries) : Lower(entries[k].code) = Lower(code)

\* body of `for elm in root.findall("Diagnosis")`; get_xml_element raises on a
\* missing child, which the bare except records
LoadDiagnosis(acc, elm) ==
  IF ~({"code", "name"} \subseteq DOMAIN elm)
    THEN [acc EXCEPT !.errors = Append(@, "Diagnosis has no code or no name")]
  ELSE IF AnyCodeIgnoringCase(acc.result, elm.code)
    THEN [acc EXCEPT !.errors =
            Append(@, "'" \o elm.code \o "' is already present in the list")]
  ELSE IF Len(elm.code) > 6
    THEN [acc EXCEPT !.errors =
            Append(@, "Code cannot be longer than 6 characters: '" \o elm.code \o "'")]
  ELSE IF Len(elm.name) > 255
    THEN [acc EXCEPT !.errors =
            Append(@, "Name cannot be longer than 255 characters: '" \o elm.name \o "'")]
  ELSE [acc EXCEPT !.result = Append(@, [code |-> elm.code, name |-> elm.name])]

RECURSIVE LoadDiagnosesLoop(_, _, _)
LoadDiagnosesLoop(acc, elms, i) ==
  IF i > Len(elms) THEN acc
  ELSE LoadDiagnosesLoop(LoadDiagnosis(acc, elms[i]), elms, i + 1)

\* load_diagnoses_xml(xml) on the <Diagnosis> elements of the document
load_diagnoses_xml(elms) ==
  LoadDiagnosesLoop([result |-> <<>>, errors |-> <<>>, raised |-> "none"], elms, 1)

\* body of the loop of parse_xml_items (label "Item") and parse_xml_services
\* (label "Service") for an element whose type, price, care type and patient
\* categories are well-formed: AttributeError of a missing child, then the
\* constraints on code and name
ParseItemOrService(acc, elm, label, fields) ==
  IF ~({"code", "name"} \subseteq DOMAIN elm)
    THEN [acc EXCEPT !.errors =
            Append(@, label \o " is missing one of the following fields: " \o fields)]
  ELSE IF AnyCodeIgnoringCase(acc.result, elm.code)
    THEN [acc EXCEPT !.errors =
            Append(@, label \o " '" \o elm.code \o "': exists multiple times in the list")]
  ELSE IF Len(elm.code) < 1 \/ Len(elm.code) > 6
    THEN [acc EXCEPT !.errors =
            Append(@, label \o " '" \o elm.code
                      \o "': code is invalid. Must be between 1 and 6 characters")]
  ELSE IF Len(elm.name) < 1 \/ Len(elm.name) > 100
    THEN [acc EXCEPT !.errors =
            Append(@, label \o " '" \o elm.code \o "': name is invalid ('" \o elm.name
                      \o "'). Must be between 1 and 100 characters")]
  ELSE [acc EXCEPT !.result = Append(@, [code |-> elm.code, name |-> elm.name])]

RECURSIVE ParseItemsLoop(_, _, _)
ParseItemsLoop(acc, elms, i) ==
  IF i > Len(elms) THEN acc
  ELSE ParseItemsLoop(
         ParseItemOrService(acc, elms[i], "Item",
           "code, name, type, price, care type, male category, female category, "
             \o "adult category or minor category."),
         elms, i + 1)

\* parse_xml_items(xml) on the <Item> elements of the document
parse_xml_items(elms) ==
  ParseItemsLoop([result |-> <<>>, errors |-> <<>>, raised |-> "none"], elms, 1)

RECURSIVE ParseServicesLoop(_, _, _)
ParseServicesLoop(acc, elms, i) ==
  IF i > Len(elms) THEN acc
  ELSE ParseServicesLoop(
         ParseItemOrService(acc, elms[i], "Service",
           "code, name, type, level, price, care type, male category, female category, "
             \o "adult category or minor category."),
         elms, i + 1)

\* parse_xml_services(xml) on the <Service> elements of the document
parse_xml_services(elms) ==
  ParseServicesLoop([result |-> <<>>, errors |-> <<>>, raised |-> "none"], elms, 1)

(* ------------------------- upload_health_facilities -------------------- *)
\* dict.pop(key) / `del d[key]`: the dict without the key
Pop(d, key) == [f \in DOMAIN d \ {key} |-> d[f]]

\* d[key] = value
Put(d, key, value) == [f \in DOMAIN d \cup {key} |-> IF f = key THEN value ELSE d[f]]

\* d.get(key) is truthy: the key is present (blank texts are never stored)
Has(d, key) == key \in DOMAIN d

\* body of `for elm in ...findall("HealthFacility")`; elm holds the non-blank
\* fields of HF_FIELDS_MAP under their mapped names
LoadHealthFacility(acc, data) ==
  IF ~(Has(data, "code") /\ Has(data, "name"))
    THEN [acc EXCEPT !.errors =
            Append(@, "Health facility has no code or no name defined")]
  ELSE IF ~Has(data, "legal_form_id")
    THEN [acc EXCEPT !.errors =
            Append(@, "Health facility '" \o data.code \o "' has no legal form defined")]
  ELSE IF ~Has(data, "level")
    THEN [acc EXCEPT !.errors =
            Append(@, "Health facility '" \o data.code \o "' has no level defined")]
  ELSE IF ~Has(data, "care_type")
    THEN [acc EXCEPT !.errors =
            Append(@, "Health facility '" \o data.code \o "' has no care type defined")]
  ELSE [acc EXCEPT !.result = Append(@, data)]

RECURSIVE LoadHealthFacilitiesLoop(_, _, _)
LoadHealthFacilitiesLoop(acc, elms, i) ==
  IF i > Len(elms) THEN acc
  ELSE LoadHealthFacilitiesLoop(LoadHealthFacility(acc, elms[i]), elms, i + 1)

\* load_health_facilities_xml(xml); root.find("HealthFacilityDetails") is None
\* when the document has no such element, and .findall raises AttributeError
load_health_facilities_xml(xml) ==
  IF ~Has(xml, "HealthFacilityDetails")
    THEN [result |-> <<>>, errors |-> <<>>, raised |-> "AttributeError"]
    ELSE LoadHealthFacilitiesLoop(
           [result |-> <<>>, errors |-> <<>>, raised |-> "none"],
           xml.HealthFacilityDetails, 1)

\* ServicesPricelist / ItemsPricelist .objects.filter(name=name, *filter_validity()).first():
\* primary key of the row found, 0 for None
FirstValidPricelist(table, name) ==
  LET found == {i \in ValidIds(table) : table[i].name = name}
  IN  IF found = {} THEN 0 ELSE Min(found)

\* get_pricelist(name, type) under functools.lru_cache(None): the cache after the call
CachePricelist(cache, lists, name, type) ==
  IF <<name, type>> \in DOMAIN cache THEN cache
  ELSE [k \in DOMAIN cache \cup {<<name, type>>} |->
          IF k = <<name, type>> THEN FirstValidPricelist(lists[type], name) ELSE cache[k]]

\* HealthFacility.objects.create(offline=False, audit_user_id=..., **facility)
NewFacilityRow(facility, audit_user_id) ==
  [code |-> facility.code,
   name |-> facility.name,
   legal_form_id |-> facility.legal_form_id,
   level |-> facility.level,
   care_type |-> facility.care_type,
   location |-> facility.location,
   services_pricelist_id |->
     IF Has(facility, "services_pricelist_id") THEN facility.services_pricelist_id ELSE 0,
   items_pricelist_id |->
     IF Has(facility, "items_pricelist_id") THEN facility.items_pricelist_id ELSE 0,
   offline |-> FALSE,
   validity_to |-> NULL,
   audit_user_id |-> audit_user_id,
   legacy_id |-> 0]

\* mutant: the facility is created without looking at dry_run
FacilityCreate_IgnoresDryRun(st, ctx, facility) ==
  LET row == NewFacilityRow(facility, ctx.user)
  IN  IF StoreRejects(ctx, facility.code) THEN [st EXCEPT !.raised = "IntegrityError"]
      ELSE
      [st EXCEPT
         !.rows = Append(@, row),
         !.w = Append(@, [op |-> "create", id |-> Len(st.rows) + 1, row |-> row]),
         !.res.created = @ + 1]

\* HealthFacility.objects.create(...) unless dry run; result.created += 1;
\* an exception of create() is raised before the count
FacilityCreate(st, ctx, facility) ==
  LET row == NewFacilityRow(facility, ctx.user)
      st1 == IF ctx.dry_run THEN st
             ELSE [st EXCEPT
                     !.rows = Append(@, row),
                     !.w = Append(@, [op |-> "create", id |-> Len(st.rows) + 1, row |-> row])]
  IN  IF StoreRejects(ctx, facility.code) THEN [st EXCEPT !.raised = "IntegrityError"]
      ELSE [st1 EXCEPT !.res.created = @ + 1]

\* existing.save_history(); setattr...; existing.save() unless dry run;
\* result.updated += 1; an exception of save() is raised after the history row
\* was written
FacilityUpdate(st, ctx, facility) ==
  LET existing == st.db[facility.code]
      histo == HistoryRow(existing, ctx.now)
      changed == SetAttrs(existing.obj, facility)
      snap == [st EXCEPT
                 !.rows = Append(@, histo),
                 !.db[facility.code].obj = changed,
                 !.w = Append(@, [op |-> "save_history", id |-> Len(st.rows) + 1,
                                  row |-> histo])]
      saved == [snap EXCEPT
                  !.rows[existing.id] = changed,
                  !.w = Append(@, [op |-> "save", id |-> existing.id, row |-> changed])]
  IN  IF ctx.dry_run THEN [st EXCEPT !.res.updated = @ + 1]
      ELSE IF StoreRejects(ctx, facility.code) THEN [snap EXCEPT !.raised = "IntegrityError"]
      ELSE [saved EXCEPT !.res.updated = @ + 1]

\* the pricelist lookups and the try block of the loop body: `except Exception`
\* records "Cannot create or update health facility : <code>" and the loop goes on
FacilityApply(st, ctx, facility0) ==
  LET hasS == Has(facility0, "services_pricelist_name")
      cacheS == IF hasS
                  THEN CachePricelist(st.plcache, ctx.pricelists,
                                      facility0.services_pricelist_name, "services")
                  ELSE st.plcache
      facility1 == IF hasS
                     THEN Put(Pop(facility0, "services_pricelist_name"), "services_pricelist_id",
                              cacheS[<<facility0.services_pricelist_name, "services">>])
                     ELSE facility0
      hasI == Has(facility1, "items_pricelist_name")
      cacheI == IF hasI
                  THEN CachePricelist(cacheS, ctx.pricelists,
                                      facility1.items_pricelist_name, "items")
                  ELSE cacheS
      facility == IF hasI
                    THEN Put(Pop(facility1, "items_pricelist_name"), "items_pricelist_id",
                             cacheI[<<facility1.items_pricelist_name, "items">>])
                    ELSE facility1
      st1 == [st EXCEPT !.plcache = cacheI]
      tried == IF ctx.strategy = STRATEGY_INSERT THEN FacilityCreate(st1, ctx, facility)
               ELSE IF facility.code \in DOMAIN st.db THEN FacilityUpdate(st1, ctx, facility)
               ELSE FacilityCreate(st1, ctx, facility)
  IN  IF tried.raised # "none"
        THEN [tried EXCEPT
                !.raised = "none",
                !.res.errors =
                  Append(@, "Cannot create or update health facility : " \o facility.code)]
        ELSE tried

\* body of `for facility in raw_health_facilities`
FacilityProcess(st, ctx, facility) ==
  LET existing == facility.code \in DOMAIN st.db
      st1 == [st EXCEPT !.res.sent = @ + 1]
  IN  IF existing /\ ctx.strategy = STRATEGY_INSERT
        THEN [st1 EXCEPT !.res.errors =
                Append(@, "Health facility '" \o st.db[facility.code].obj.code
                          \o "' already exists")]
      ELSE IF ~existing /\ ctx.strategy = STRATEGY_UPDATE
        THEN [st1 EXCEPT !.res.errors =
                Append(@, "Health facility '" \o facility.code \o "' does not exist")]
      ELSE IF ~Has(facility, "district_code")
        \* facility.pop("district_code") on a dict without the key
        THEN [st1 EXCEPT !.raised = "KeyError"]
      ELSE
        LET cache == CacheParent(st1.cache, ctx.locations, facility.district_code)
            location == cache[facility.district_code]
            st2 == [st1 EXCEPT !.cache = cache]
        IN  IF location = 0
              \* the message reads facility['district_code'], which pop() removed
              THEN [st2 EXCEPT !.raised = "KeyError"]
              ELSE FacilityApply(st2, ctx,
                                 Put(Pop(facility, "district_code"), "location", location))

RECURSIVE FacilitiesLoop(_, _, _, _)
FacilitiesLoop(st, ctx, facilities, i) ==
  IF i > Len(facilities) \/ st.raised # "none" THEN st
  ELSE FacilitiesLoop(FacilityProcess(st, ctx, facilities[i]), ctx, facilities, i + 1)

\* upload_health_facilities(user, xml, strategy, dry_run) on the table `rows`
upload_health_facilities(rows, plcache, ctx) ==
  LET loaded == load_health_facilities_xml(ctx.xml)
      raw == loaded.result
      st0 == [rows |-> rows,
              db |-> FetchByCode(rows, {raw[k].code : k \in 1..Len(raw)}),
              \* get_parent_location.cache_clear(), the first statement of the function
              cache |-> CacheClear(ctx.parent_cache),
              plcache |-> plcache,
              res |-> UploadResult(loaded.errors),
              raised |-> "none",
              w |-> <<>>]
  IN  IF loaded.raised # "none"
        \* raise InvalidXMLError("XML file is invalid.") from exc
        THEN [st0 EXCEPT !.res = NoResult, !.raised = "InvalidXMLError"]
        ELSE FacilitiesLoop(st0, ctx, raw, 1)

(* ------------------------------- inputs -------------------------------- *)
\* a parsed entry: code and name always, the optional frequency on some
EntriesOf(code) ==
  {[code |-> code, name |-> "n1"],
   [code |-> code, name |-> "n2", frequency |-> "f2"]}

AllEntries == UNION {EntriesOf(c) : c \in Codes}

\* the parsers keep one entry per code, so the codes of a list are distinct
EntryLists ==
  {es \in UNION {[1..n -> AllEntries] : n \in 0..MaxEntries} :
     \A i, j \in 1..Len(es) : i # j => es[i].code # es[j].code}

\* a row as the tables of the test database hold it (written by a user 0 that
\* does not upload)
SeedRow(code) ==
  [code |-> code, name |-> "n0", frequency |-> "f0",
   validity_to |-> NULL, audit_user_id |-> 0, legacy_id |-> 0]

SeedItems == <<SeedRow("A"), SeedRow("C")>>

\* sequences over S of length at most n
SeqsUpTo(S, n) == UNION {[1..k -> S] : k \in 0..n}

\* <Region>, <District>, <Municipality> and <Village> elements of an upload; the
\* last region has no <RegionName> child
RegionElements ==
  {[tag |-> "Region", code |-> c, name |-> "n1"] : c \in {"R2", "r2"}}
    \cup {[tag |-> "Region", code |-> "R2"]}

DistrictElements ==
  {[tag |-> "District", code |-> "D1", name |-> "n1", parent |-> "R1"],
   [tag |-> "District", code |-> "D2", name |-> "n1", parent |-> "R2"]}

MunicipalityElements ==
  {[tag |-> "Municipality", code |-> "W1", name |-> "n1", parent |-> "D1"]}

VillageElements ==
  {[tag |-> "Village", code |-> "V1", name |-> "n1", parent |-> "W1"]}

LocationsXmls ==
  {xml \in [Regions : SeqsUpTo(RegionElements, MaxEntries),
            Districts : SeqsUpTo(DistrictElements, MaxEntries),
            Villages : SeqsUpTo(VillageElements, MaxEntries),
            Municipalities : SeqsUpTo(MunicipalityElements, MaxEntries)] :
     Len(AllLocations(xml)) <= MaxEntries}

SeedLocation(code, type, parent) ==
  [code |-> code, name |-> "n0", type |-> type, parent |-> parent,
   validity_to |-> NULL, audit_user_id |-> 0, legacy_id |-> 0]

SeedLocations == <<SeedLocation("R1", "R", 0), SeedLocation("D1", "D", 1)>>

\* <HealthFacility> elements of an upload, fields under their HF_FIELDS_MAP names:
\* a facility of district D1 with a services pricelist, one of an unknown district,
\* one without pricelist, one without <LegalForm>, one without <DistrictCode>
FacilityElement(code, district_code) ==
  [code |-> code, name |-> "n1", legal_form_id |-> "C", level |-> "H", care_type |-> "B",
   district_code |-> district_code]

FacilityElements ==
  {Put(FacilityElement("H1", "D1"), "services_pricelist_name", "PL"),
   FacilityElement("H1", "D9"),
   FacilityElement("H2", "D1"),
   Pop(FacilityElement("H1", "D1"), "legal_form_id"),
   Pop(FacilityElement("H2", "D1"), "district_code")}

\* the documents: a <HealthFacilityDetails> list, or no such element
HealthFacilitiesXmls ==
  {[HealthFacilityDetails |-> fs] : fs \in SeqsUpTo(FacilityElements, MaxEntries)}
    \cup {[Other |-> <<>>]}

SeedFacilities ==
  <<[code |-> "H1", name |-> "n0", legal_form_id |-> "C", level |-> "H", care_type |-> "B",
     location |-> 2, services_pricelist_id |-> 0, items_pricelist_id |-> 0,
     offline |-> FALSE, validity_to |-> NULL, audit_user_id |-> 0, legacy_id |-> 0]>>

SeedPricelists ==
  [services |-> <<[name |-> "PL", validity_to |-> NULL]>>, items |-> <<>>]

EmptyPricelists == [services |-> <<>>, items |-> <<>>]

EmptyPricelistCache == [k \in {} |-> 0]

\* <Diagnosis>, <Item> and <Service> elements handed to the parsers: codes that
\* differ by case only, a code of 7 characters, a blank code, and an element
\* without its name child
SimpleElements ==
  {[code |-> c, name |-> "n1"] : c \in {"A", "a", "B", "ABCDEFG", ""}}
    \cup {[code |-> "A"]}

SimpleXmls == SeqsUpTo(SimpleElements, MaxElements)

\* location documents handed to load_locations_xml on its own: regions whose
\* codes differ by case only or are blank, districts, one of them with the code
\* of a region
ParsedLocationsXmls ==
  {xml \in [Regions : SeqsUpTo({[tag |-> "Region", code |-> c, name |-> "n1"] :
                                  c \in {"R2", "r2", ""}}, MaxElements),
            Districts : SeqsUpTo({[tag |-> "District", code |-> c, name |-> "n1",
                                   parent |-> "R2"] : c \in {"D2", "R2"}}, MaxElements),
            Villages : {<<>>},
            Municipalities : {<<>>}] :
     Len(AllLocations(xml)) <= MaxElements}

\* lists of candidate codes handed to the chunked lookup on its own: pairwise
\* distinct codes, some with a valid location in the seeded table
LookupCodes == {"R1", "D1", "R2", "D2", "W1"}

LookupIds ==
  {ids \in SeqsUpTo(LookupCodes, MaxIds) :
     \A i, j \in 1..Len(ids) : ids[i] = ids[j] => i = j}

\* the code whose row the store refuses to write during a request (NULL: none)
FailingItems == {NULL, "B"}

FailingLocations == {NULL, "D2"}

FailingFacilities == {NULL, "H2"}

(* ------------------------------ upload_claim --------------------------- *)
\* UserDistrict.get_user_districts(user._u): the locations of the user's districts
UserDistrictLocations(uds, user) ==
  {uds[k].location : k \in {j \in 1..Len(uds) : uds[j].user = user}}

\* mutant: the facility is looked up by its code alone, in any district
CanUploadClaimsFor_AnyDistrict(hfs, uds, user, hf_code) ==
  ValidIdsOf(hfs, hf_code) # {}

\* HealthFacility.filter_queryset()
\*   .filter(location_id__in=[l.location_id for l in districts], code=hf_code).exists()
CanUploadClaimsFor(hfs, uds, user, hf_code) ==
  \E i \in ValidIdsOf(hfs, hf_code) : hfs[i].location \in UserDistrictLocations(uds, user)

\* the values uspUpdateClaimFromPhone hands back in @ret
SpReturnCodes == (-1)..9

\* what the cursor holds after the two nextset(): no result set, or the row with @ret
SpResponses ==
  {[description |-> FALSE]} \cup {[description |-> TRUE, ret |-> n] : n \in SpReturnCodes}

\* the message of the InvalidXMLError raised for a value of res ("": no branch
\* of the if/elif chain raises for it)
ClaimErrorMessage(res) ==
  CASE res = 1 -> "Health facility invalid."
    [] res = 2 -> "Duplicated claim code"
    [] res = 3 -> "Unknown insuree number"
    [] res = 4 -> "Invalid end date"
    [] res = 5 -> "Unknown diagnosis code"
    [] res = 7 -> "Unknown medical item code"
    [] res = 8 -> "Unknown medical service code"
    [] res = 9 -> "Unknown claim admin code"
    [] res = -1 -> "Unknown error occurred"
    [] OTHER -> ""

\* the row-security check of upload_claim: "none" when it lets the request pass
RowSecurityCheck(hfs, uds, ctx) ==
  IF ~ctx.row_security THEN [raised |-> "none", error |-> ""]
  ELSE IF "HFCode" \notin DOMAIN ctx.xml
    \* xml.find(..).find("HFCode") is None, .text raises AttributeError
    THEN [raised |-> "AttributeError", error |-> ""]
  ELSE IF ~CanUploadClaimsFor(hfs, uds, ctx.user, ctx.xml.HFCode)
    THEN [raised |-> "InvalidXMLError",
          error |-> "User cannot upload claims for health facility " \o ctx.xml.HFCode]
  ELSE [raised |-> "none", error |-> ""]

\* upload_claim after cursor.execute(...): the outcome for the cursor's response;
\* returned is "True", "None", or "-" when an exception leaves the function
ClaimOutcome(response) ==
  IF ~response.description THEN [returned |-> "None", raised |-> "none", error |-> ""]
  ELSE IF response.ret = 0 THEN [returned |-> "True", raised |-> "none", error |-> ""]
  ELSE IF ClaimErrorMessage(response.ret) # ""
    THEN [returned |-> "-", raised |-> "InvalidXMLError",
          error |-> ClaimErrorMessage(response.ret)]
  \* no branch matches: the function ends without a return statement
  ELSE [returned |-> "None", raised |-> "none", error |-> ""]

\* upload_claim(user, xml) when the stored procedure answers with `response`
upload_claim(hfs, uds, ctx, response) ==
  LET check == RowSecurityCheck(hfs, uds, ctx)
      out == ClaimOutcome(response)
  IN  IF check.raised # "none"
        THEN [returned |-> "-", raised |-> check.raised, error |-> check.error,
              res |-> NULL, w |-> <<>>]
        ELSE [returned |-> out.returned, raised |-> out.raised, error |-> out.error,
              res |-> response,
              w |-> <<[op |-> "uspUpdateClaimFromPhone", xml |-> ctx.xml]>>]

(* ----------------------- return_upload_result_json -------------------- *)
\* the value of a parameter that was not given
None == [none |-> TRUE]

\* mutant: the rejected entries of an XML upload are reported as failed
XmlData_CountsErrors(xml_result) ==
  [sent |-> xml_result.sent,
   created |-> xml_result.created,
   updated |-> xml_result.updated,
   deleted |-> xml_result.deleted,
   skipped |-> 0,
   invalid |-> 0,
   failed |-> Len(xml_result.errors)]

\* response_data["data"] for an UploadResult
XmlData(xml_result) ==
  [sent |-> xml_result.sent,
   created |-> xml_result.created,
   updated |-> xml_result.updated,
   deleted |-> xml_result.deleted,
   skipped |-> 0,
   invalid |-> 0,
   failed |-> 0]

\* response_data["data"] for a Result of django-import-export
OtherTypesData(other_types_result) ==
  [sent |-> other_types_result.total_rows,
   created |-> other_types_result.totals.new,
   updated |-> other_types_result.totals.update,
   deleted |-> other_types_result.totals.delete,
   skipped |-> other_types_result.totals.skip,
   invalid |-> other_types_result.totals.invalid,
   failed |-> other_types_result.totals.error]

\* return_upload_result_json(success, xml_result, other_types_result, other_types_errors):
\* the body of the JsonResponse, or the RuntimeError raised
return_upload_result_json(success, xml_result, other_types_result, other_types_errors) ==
  IF xml_result # None /\ other_types_result # None
    THEN [raised |-> "RuntimeError",
          error |-> "You cannot provide two different types of upload result"]
  ELSE IF xml_result = None /\ other_types_result = None
    THEN [raised |-> "RuntimeError",
          error |-> "You must provide one type of upload result"]
  ELSE IF xml_result # None
    THEN [raised |-> "none", error |-> "",
          response |-> [success |-> success, data |-> XmlData(xml_result),
                        errors |-> xml_result.errors]]
  ELSE [raised |-> "none", error |-> "",
        response |-> [success |-> success, data |-> OtherTypesData(other_types_result),
                      errors |-> other_types_errors]]

(* --------------------- process_import_items_services ------------------- *)
\* Result() of django-import-export before the first row
EmptyImportResult ==
  [total_rows |-> 0,
   totals |-> [new |-> 0, update |-> 0, delete |-> 0, skip |-> 0, invalid |-> 0,
               error |-> 0],
   invalid_rows |-> <<>>,
   row_errors |-> <<>>]

\* ItemResource.before_import_row on a row: the exception it ends with, if any
\* (row["type"].upper() on an empty cell, validate_imported_item_row on the code)
ImportRowCheck(row) ==
  IF row.type = NULL
    THEN [kind |-> "error", message |-> "'NoneType' object has no attribute 'upper'"]
  ELSE IF Len(row.code) < 1 \/ Len(row.code) > 6
    THEN [kind |-> "invalid",
          message |-> "Item '" \o row.code
                        \o "': code is invalid. Must be between 1 and 6 characters"]
  ELSE [kind |-> "ok", message |-> ""]

\* the import of the row of number i: a failing row is recorded, a row whose code
\* has a valid record (import_id_fields = ('code',), get_queryset()) updates it,
\* any other row creates one; row["audit_user_id"] = self.user_id
ImportRow(acc, row, i, user_id) ==
  LET check == ImportRowCheck(row)
      found == ValidIdsOf(acc.rows, row.code)
      entry == [code |-> row.code, name |-> row.name, audit_user_id |-> user_id]
  IN  IF check.kind = "error"
        THEN [acc EXCEPT !.result.totals.error = @ + 1,
                         !.result.row_errors =
                           Append(@, [number |-> i, errors |-> <<check.message>>])]
      ELSE IF check.kind = "invalid"
        THEN [acc EXCEPT !.result.totals.invalid = @ + 1,
                         !.result.invalid_rows =
                           Append(@, [number |-> i, message |-> check.message])]
      ELSE IF found # {}
        THEN [acc EXCEPT !.result.totals.update = @ + 1,
                         !.rows[Max(found)] = SetAttrs(@, entry)]
      ELSE [acc EXCEPT !.result.totals.new = @ + 1,
                       !.rows = Append(@, NewItemRow(entry, user_id))]

RECURSIVE ImportRows(_, _, _, _)
ImportRows(acc, dataset, i, user_id) ==
  IF i > Len(dataset) THEN acc
  ELSE ImportRows(ImportRow(acc, dataset[i], i, user_id), dataset, i + 1, user_id)

\* resource.import_data(dataset, dry_run): the Result and the table afterwards; a
\* dry run, or a run with a failed row, is rolled back
import_data(rows, dataset, user_id, dry_run) ==
  LET done == ImportRows(
                [rows |-> rows,
                 result |-> [EmptyImportResult EXCEPT !.total_rows = Len(dataset)]],
                dataset, 1, user_id)
      failed == done.result.row_errors # <<>> \/ done.result.invalid_rows # <<>>
  IN  [rows |-> IF dry_run \/ failed THEN rows ELSE done.rows,
       result |-> done.result]

\* result.has_errors()
HasErrors(import_result) == import_result.row_errors # <<>>

\* result.has_validation_errors()
HasValidationErrors(import_result) == import_result.invalid_rows # <<>>

RECURSIVE InvalidRowMessages(_, _)
\* for invalid_row in result.invalid_rows: errors.append(f"row ({number}) - {message}")
InvalidRowMessages(invalid_rows, i) ==
  IF i > Len(invalid_rows) THEN <<>>
  ELSE <<"row (" \o ToString(invalid_rows[i].number) \o ") - " \o invalid_rows[i].message>>
         \o InvalidRowMessages(invalid_rows, i + 1)

RECURSIVE RowErrorMessages(_, _)
\* for index, row_error in result.row_errors(): for error in row_error: errors.append(...)
RowErrorMessages(row_errors, i) ==
  IF i > Len(row_errors) THEN <<>>
  ELSE [k \in 1..Len(row_errors[i].errors) |->
          "row (" \o ToString(row_errors[i].number) \o ") - " \o row_errors[i].errors[k]]
         \o RowErrorMessages(row_errors, i + 1)

\* mutant: the committing import runs whatever the dry run reported
ShouldCommit_Always(import_result) == TRUE

\* `if not result.has_errors() and not result.has_validation_errors()`
ShouldCommit(import_result) ==
  ~HasErrors(import_result) /\ ~HasValidationErrors(import_result)

\* process_import_items_services(resource, dataset) on the table `rows`
process_import_items_services(rows, dataset, user_id) ==
  LET dry == import_data(rows, dataset, user_id, TRUE)
      result_ == dry.result
      committed == import_data(rows, dataset, user_id, FALSE)
      errors == (IF HasValidationErrors(result_)
                   THEN InvalidRowMessages(result_.invalid_rows, 1) ELSE <<>>)
                \o (IF HasErrors(result_)
                      THEN RowErrorMessages(result_.row_errors, 1) ELSE <<>>)
  IN  IF ShouldCommit(result_)
        THEN [rows |-> committed.rows,
              w |-> <<[op |-> "import_data", dry_run |-> TRUE],
                      [op |-> "import_data", dry_run |-> FALSE]>>,
              out |-> return_upload_result_json(TRUE, None, result_, <<>>)]
        ELSE [rows |-> rows,
              w |-> <<[op |-> "import_data", dry_run |-> TRUE]>>,
              out |-> return_upload_result_json(FALSE, None, result_, errors)]

(* ------------------------------ serializers ---------------------------- *)
\* choices of UploadSerializer.strategy
UploadSerializerChoices == {STRATEGY_INSERT, STRATEGY_UPDATE, STRATEGY_INSERT_UPDATE}

\* choices of DeletableUploadSerializer.strategy
DeletableUploadSerializerChoices ==
  {STRATEGY_INSERT, STRATEGY_UPDATE, STRATEGY_INSERT_UPDATE, STRATEGY_INSERT_UPDATE_DELETE}

\* the upload views
UploadEndpoints ==
  {"upload_locations", "upload_health_facilities", "upload_diagnoses", "upload_items",
   "upload_services"}

\* the strategies serializer.is_valid(raise_exception=True) lets through in a view
AcceptedStrategies(endpoint) ==
  IF endpoint \in {"upload_locations", "upload_health_facilities"}
    THEN UploadSerializerChoices
    ELSE DeletableUploadSerializerChoices

(* ------------------------------- actions ------------------------------- *)
\* the database is empty or holds the seeded rows
Init ==
  /\ \/ /\ items = <<>>
        /\ locations = <<>>
        /\ health_facilities = <<>>
        /\ pricelists = EmptyPricelists
     \/ /\ items = SeedItems
        /\ locations = SeedLocations
        /\ health_facilities = SeedFacilities
        /\ pricelists = SeedPricelists
  /\ user_districts = <<>>
  /\ parent_cache = EmptyCache
  /\ pricelist_cache = EmptyPricelistCache
  /\ call = NoCall
  /\ result = NoResult
  /\ raised = "none"
  /\ writes = <<>>
  /\ ncalls = 0
  /\ inflight = {}

\* upload_diagnoses / upload_items / upload_services -> upload_simple_data
UploadSimpleData ==
  /\ call = NoCall
  /\ ncalls < MaxCalls
  /\ \E user \in Users, strategy \in Strategies, dry_run \in BOOLEAN,
        parsed_entries \in EntryLists, parsing_errors \in ParsingErrorLists,
        failing \in FailingItems :
       LET ctx == [op |-> "upload_simple_data",
                   user |-> user,
                   strategy |-> strategy,
                   dry_run |-> dry_run,
                   parsed_entries |-> parsed_entries,
                   parsing_errors |-> parsing_errors,
                   log_string_sg |-> "Item",
                   failing |-> failing,
                   now |-> Timestamp(ncalls + 1)]
           out == upload_simple_data(items, ctx)
       IN  /\ call' = ctx
           /\ items' = out.rows
           /\ result' = out.res
           /\ raised' = out.raised
           /\ writes' = out.w
  /\ ncalls' = ncalls + 1
  /\ UNCHANGED <<inflight, locations, user_districts, health_facilities, pricelists,
                 parent_cache, pricelist_cache>>

\* upload_locations(user, xml, strategy, dry_run)
UploadLocations ==
  /\ call = NoCall
  /\ ncalls < MaxCalls
  /\ \E user \in Users, strategy \in Strategies, dry_run \in BOOLEAN, xml \in LocationsXmls,
        failing \in FailingLocations :
       LET ctx == [op |-> "upload_locations",
                   user |-> user,
                   strategy |-> strategy,
                   dry_run |-> dry_run,
                   xml |-> xml,
                   failing |-> failing,
                   now |-> Timestamp(ncalls + 1)]
           out == upload_locations(locations, user_districts, parent_cache, ctx)
       IN  /\ call' = ctx
           /\ locations' = out.rows
           /\ user_districts' = out.uds
           /\ parent_cache' = out.cache
           /\ result' = out.res
           /\ raised' = out.raised
           /\ writes' = out.w
  /\ ncalls' = ncalls + 1
  /\ UNCHANGED <<inflight, items, health_facilities, pricelists, pricelist_cache>>

\* upload_health_facilities(user, xml, strategy, dry_run)
UploadHealthFacilities ==
  /\ call = NoCall
  /\ ncalls < MaxCalls
  /\ \E user \in Users, strategy \in Strategies, dry_run \in BOOLEAN,
        xml \in HealthFacilitiesXmls, failing \in FailingFacilities :
       LET ctx == [op |-> "upload_health_facilities",
                   user |-> user,
                   strategy |-> strategy,
                   dry_run |-> dry_run,
                   xml |-> xml,
                   failing |-> failing,
                   now |-> Timestamp(ncalls + 1)]
           \* the tables the call only reads
           out == upload_health_facilities(
                    health_facilities, pricelist_cache,
                    ctx @@ [locations |-> locations, pricelists |-> pricelists,
                            parent_cache |-> parent_cache])
       IN  /\ call' = ctx
           /\ health_facilities' = out.rows
           /\ parent_cache' = out.cache
           /\ pricelist_cache' = out.plcache
           /\ result' = out.res
           /\ raised' = out.raised
           /\ writes' = out.w
  /\ ncalls' = ncalls + 1
  /\ UNCHANGED <<inflight, items, locations, user_districts, pricelists>>

\* load_diagnoses_xml(xml): the (result, errors) pair is kept in `result`
LoadDiagnosesXml ==
  /\ call = NoCall
  /\ ncalls < MaxCalls
  /\ \E xml \in SimpleXmls :
       LET out == load_diagnoses_xml(xml)
       IN  /\ call' = [op |-> "load_diagnoses_xml", xml |-> xml]
           /\ result' = out
           /\ raised' = out.raised
  /\ writes' = <<>>
  /\ ncalls' = ncalls + 1
  /\ UNCHANGED <<inflight, items, locations, user_districts, health_facilities, pricelists,
                 parent_cache, pricelist_cache>>

\* parse_xml_items(xml): the (result, errors) pair is kept in `result`
ParseXmlItems ==
  /\ call = NoCall
  /\ ncalls < MaxCalls
  /\ \E xml \in SimpleXmls :
       LET out == parse_xml_items(xml)
       IN  /\ call' = [op |-> "parse_xml_items", xml |-> xml]
           /\ result' = out
           /\ raised' = out.raised
  /\ writes' = <<>>
  /\ ncalls' = ncalls + 1
  /\ UNCHANGED <<inflight, items, locations, user_districts, health_facilities, pricelists,
                 parent_cache, pricelist_cache>>

\* parse_xml_services(xml): the (result, errors) pair is kept in `result`
ParseXmlServices ==
  /\ call = NoCall
  /\ ncalls < MaxCalls
  /\ \E xml \in SimpleXmls :
       LET out == parse_xml_services(xml)
       IN  /\ call' = [op |-> "parse_xml_services", xml |-> xml]
           /\ result' = out
           /\ raised' = out.raised
  /\ writes' = <<>>
  /\ ncalls' = ncalls + 1
  /\ UNCHANGED <<inflight, items, locations, user_districts, health_facilities, pricelists,
                 parent_cache, pricelist_cache>>

\* load_locations_xml(xml): the (result, errors) pair is kept in `result`
LoadLocationsXml ==
  /\ call = NoCall
  /\ ncalls < MaxCalls
  /\ \E xml \in ParsedLocationsXmls :
       LET out == load_locations_xml(xml)
       IN  /\ call' = [op |-> "load_locations_xml", xml |-> xml]
           /\ result' = out
           /\ raised' = out.raised
  /\ writes' = <<>>
  /\ ncalls' = ncalls + 1
  /\ UNCHANGED <<inflight, items, locations, user_districts, health_facilities, pricelists,
                 parent_cache, pricelist_cache>>

\* the existence lookup of upload_locations on a list of codes with a chunk size:
\* the chunks __chunk_list yields and the existing_locations map built from them
ChunkedLookup ==
  /\ call = NoCall
  /\ ncalls < MaxCalls
  /\ \E ids \in LookupIds, size \in 1..MaxChunkSize :
       LET chunks == ChunkList(ids, size)
       IN  /\ call' = [op |-> "__chunk_list", ids |-> ids, size |-> size]
           /\ result' = [chunks |-> chunks,
                         existing_locations |->
                           UpdateFromChunks(locations, [c \in {} |-> 0], chunks, 1)]
  /\ raised' = "none"
  /\ writes' = <<>>
  /\ ncalls' = ncalls + 1
  /\ UNCHANGED <<inflight, items, locations, user_districts, health_facilities, pricelists,
                 parent_cache, pricelist_cache>>

\* upload_simple_data up to `db_entries = {...}`: the request builds its result and
\* looks up the existing records; no lock is taken and no version is remembered, so
\* other requests run before its loop starts
SimpleFetch ==
  /\ call = NoCall
  /\ ncalls < MaxCalls
  /\ \E user \in Users, strategy \in Strategies, dry_run \in BOOLEAN,
        parsed_entries \in EntryLists :
       LET ctx == [op |-> "upload_simple_data",
                   user |-> user,
                   strategy |-> strategy,
                   dry_run |-> dry_run,
                   parsed_entries |-> parsed_entries,
                   parsing_errors |-> <<>>,
                   log_string_sg |-> "Item",
                   failing |-> NULL,
                   now |-> Timestamp(ncalls + 1)]
       IN  inflight' = inflight \cup {[ctx |-> ctx, db |-> DbEntries(items, ctx)]}
  /\ ncalls' = ncalls + 1
  /\ UNCHANGED <<items, locations, user_districts, health_facilities, pricelists,
                 parent_cache, pricelist_cache, call, result, raised, writes>>

\* upload_simple_data from its loop to its return, for a request that made its
\* existence lookup earlier
SimpleApply ==
  /\ call = NoCall
  /\ \E r \in inflight :
       LET out == SimpleReconcile(items, r.db, r.ctx)
       IN  /\ call' = r.ctx
           /\ items' = out.rows
           /\ result' = out.res
           /\ raised' = out.raised
           /\ writes' = out.w
           /\ inflight' = inflight \ {r}
  /\ UNCHANGED <<locations, user_districts, health_facilities, pricelists,
                 parent_cache, pricelist_cache, ncalls>>

\* claim documents: <HFCode> of a seeded facility, of unknown ones, or no <HFCode>
ClaimXmls == {[HFCode |-> c] : c \in {"H1", "H2", "WRONG"}} \cup {[ClaimCode |-> "c1"]}

\* the seeded database where user 1 has the district D1 (upload_locations adds
\* the UserDistrict of a district it creates), or the empty one
InitClaims ==
  /\ \/ /\ items = <<>>
        /\ locations = <<>>
        /\ health_facilities = <<>>
        /\ pricelists = EmptyPricelists
        /\ user_districts = <<>>
     \/ /\ items = SeedItems
        /\ locations = SeedLocations
        /\ health_facilities = SeedFacilities
        /\ pricelists = SeedPricelists
        /\ user_districts = <<[user |-> 1, location |-> 2, audit_user_id |-> 1]>>
  /\ parent_cache = EmptyCache
  /\ pricelist_cache = EmptyPricelistCache
  /\ call = NoCall
  /\ result = NoResult
  /\ raised = "none"
  /\ writes = <<>>
  /\ ncalls = 0
  /\ inflight = {}

\* upload_claim(user, xml) under a value of settings.ROW_SECURITY; the stored
\* procedure's answer is the database's choice
UploadClaim ==
  /\ call = NoCall
  /\ ncalls < MaxCalls
  /\ \E user \in Users, row_security \in BOOLEAN, xml \in ClaimXmls :
       LET ctx == [op |-> "upload_claim",
                   user |-> user,
                   row_security |-> row_security,
                   xml |-> xml]
       IN  \E response \in
              IF RowSecurityCheck(health_facilities, user_districts, ctx).raised = "none"
                THEN SpResponses ELSE {[description |-> FALSE]} :
             LET out == upload_claim(health_facilities, user_districts, ctx, response)
             IN  /\ call' = ctx
                 /\ result' = [returned |-> out.returned, error |-> out.error,
                               res |-> out.res]
                 /\ raised' = out.raised
                 /\ writes' = out.w
  /\ ncalls' = ncalls + 1
  /\ UNCHANGED <<inflight, items, locations, user_districts, health_facilities, pricelists,
                 parent_cache, pricelist_cache>>

\* rows of an uploaded spreadsheet: new and existing codes, a code of 7
\* characters, and a row whose type cell is empty
DatasetRows ==
  {[code |-> c, name |-> "n1", type |-> "D"] : c \in {"A", "B", "ABCDEFG"}}
    \cup {[code |-> "A", name |-> "n1", type |-> NULL]}

Datasets == SeqsUpTo(DatasetRows, MaxEntries)

\* UploadResults handed to return_upload_result_json
XmlResults ==
  [errors : {<<>>, <<"Item 'A' already exists", "Item 'B' already exists">>},
   sent : {0, 2}, created : {0, 1}, updated : {0, 1}, deleted : {0, 1}]

\* Results of django-import-export handed to return_upload_result_json
OtherTypesResults ==
  {import_data(SeedItems, <<row>>, 1, TRUE).result : row \in DatasetRows}

\* import_items -> process_import_items_services(ItemResource(user_id), dataset)
ProcessImportItemsServices ==
  /\ call = NoCall
  /\ ncalls < MaxCalls
  /\ \E user_id \in Users, dataset \in Datasets :
       LET done == process_import_items_services(items, dataset, user_id)
       IN  /\ call' = [op |-> "process_import_items_services",
                       user |-> user_id, dataset |-> dataset]
           /\ items' = done.rows
           /\ result' = done.out
           /\ raised' = done.out.raised
           /\ writes' = done.w
  /\ ncalls' = ncalls + 1
  /\ UNCHANGED <<inflight, locations, user_districts, health_facilities, pricelists,
                 parent_cache, pricelist_cache>>

\* return_upload_result_json on its own
ReturnUploadResultJson ==
  /\ call = NoCall
  /\ ncalls < MaxCalls
  /\ \E success \in BOOLEAN, xml_result \in XmlResults \cup {None},
        other_types_result \in OtherTypesResults \cup {None},
        other_types_errors \in {<<>>, <<"row (1) - e">>} :
       LET out == return_upload_result_json(success, xml_result, other_types_result,
                                            other_types_errors)
       IN  /\ call' = [op |-> "return_upload_result_json",
                       success |-> success,
                       xml_result |-> xml_result,
                       other_types_result |-> other_types_result,
                       other_types_errors |-> other_types_errors]
           /\ result' = out
           /\ raised' = out.raised
  /\ writes' = <<>>
  /\ ncalls' = ncalls + 1
  /\ UNCHANGED <<inflight, items, locations, user_districts, health_facilities, pricelists,
                 parent_cache, pricelist_cache>>

\* upload_items(user, xml, strategy, dry_run): parse_xml_items, then
\* upload_simple_data on the parsed entries and the parsing errors
UploadItems ==
  /\ call = NoCall
  /\ ncalls < MaxCalls
  /\ \E user \in Users, strategy \in Strategies, dry_run \in BOOLEAN, xml \in SimpleXmls,
        failing \in FailingItems :
       LET parsed == parse_xml_items(xml)
           ctx == [op |-> "upload_items",
                   user |-> user,
                   strategy |-> strategy,
                   dry_run |-> dry_run,
                   xml |-> xml,
                   parsed_entries |-> parsed.result,
                   parsing_errors |-> parsed.errors,
                   log_string_sg |-> "Item",
                   failing |-> failing,
                   now |-> Timestamp(ncalls + 1)]
           out == upload_simple_data(items, ctx)
       IN  /\ call' = ctx
           /\ items' = out.rows
           /\ result' = out.res
           /\ raised' = out.raised
           /\ writes' = out.w
  /\ ncalls' = ncalls + 1
  /\ UNCHANGED <<inflight, locations, user_districts, health_facilities, pricelists,
                 parent_cache, pricelist_cache>>

\* between two uploads another part of the application archives a services
\* pricelist, one of the rows get_pricelist reads
ArchivePricelist ==
  /\ call = NoCall
  /\ \E i \in ValidIds(pricelists.services) :
       pricelists' = [pricelists EXCEPT !.services[i].validity_to = Timestamp(ncalls)]
  /\ UNCHANGED <<inflight, items, locations, user_districts, health_facilities,
                 parent_cache, pricelist_cache, call, result, raised, writes, ncalls>>

\* the view hands the result to the client; the request-scoped values are dropped
Return ==
  /\ call # NoCall
  /\ call' = NoCall
  /\ result' = NoResult
  /\ raised' = "none"
  /\ writes' = <<>>
  /\ UNCHANGED <<inflight, items, locations, user_districts, health_facilities, pricelists,
                 parent_cache, pricelist_cache, ncalls>>

NextSimple == UploadSimpleData \/ Return

SpecSimple == Init /\ [][NextSimple]_vars

NextLocations == UploadLocations \/ Return

SpecLocations == Init /\ [][NextLocations]_vars

NextHealthFacilities == UploadHealthFacilities \/ Return

SpecHealthFacilities == Init /\ [][NextHealthFacilities]_vars

NextParsers ==
  LoadDiagnosesXml \/ ParseXmlItems \/ ParseXmlServices \/ LoadLocationsXml \/ Return

SpecParsers == Init /\ [][NextParsers]_vars

NextChunks == ChunkedLookup \/ Return

SpecChunks == Init /\ [][NextChunks]_vars

NextPricelists == UploadHealthFacilities \/ ArchivePricelist \/ Return

SpecPricelists == Init /\ [][NextPricelists]_vars

NextConcurrent == SimpleFetch \/ SimpleApply \/ Return

SpecConcurrent == Init /\ [][NextConcurrent]_vars

NextClaims == UploadClaim \/ Return

SpecClaims == InitClaims /\ [][NextClaims]_vars

NextJson == ReturnUploadResultJson \/ Return

SpecJson == Init /\ [][NextJson]_vars

NextImport == ProcessImportItemsServices \/ Return

SpecImport == Init /\ [][NextImport]_vars

NextItems == UploadItems \/ Return

SpecItems == Init /\ [][NextItems]_vars

Next == UploadSimpleData \/ UploadLocations \/ UploadHealthFacilities \/ Return

Spec == Init /\ [][Next]_vars

(* ------------------------------ properties ----------------------------- *)
\* a step in which a request of the operation is served
Serves(op) == call = NoCall /\ call'.op = op

\* a step in which a request of the operation is served and returns its result
\* (no exception leaves the function)
Returns(op) == Serves(op) /\ raised' = "none"

\* the candidate's code has a valid record when the request starts
ExistsBefore(entry) == ValidIdsOf(items, entry.code) # {}

NotExistsBefore(entry) == ~ExistsBefore(entry)

\* primary keys of the rows the request added to the items table
NewItemIds == (Len(items) + 1)..Len(items')

\* the request left every row the table held as it was
ItemsRowsKept == \A i \in 1..Len(items) : items'[i] = items[i]

\* the request created exactly one valid row for each of the entries (of distinct
\* codes), carrying the entry's fields, and added no other row
CreatedExactly(entries) ==
  /\ Cardinality(NewItemIds) = Len(entries)
  /\ \A k \in 1..Len(entries) :
       \E i \in NewItemIds :
         /\ IsValid(items'[i])
         /\ \A f \in DOMAIN entries[k] : items'[i][f] = entries[k][f]

\* the errors the request appended to the parser's list
AppendedErrors ==
  SubSeq(result'.errors, Len(call'.parsing_errors) + 1, Len(result'.errors))

\* C1: with strategy INSERT, upload_simple_data rejects each candidate whose code
\* has a valid record with one error "<label> '<code>' already exists" naming that
\* code and neither creates nor updates anything for it, creates one record for
\* every other candidate (unless dry run) and counts it in created; updated
\* stays 0 and no existing record is modified.
C1_InsertOnly ==
  [][(Returns("upload_simple_data") /\ call'.strategy = STRATEGY_INSERT) =>
       LET rejected == SelectSeq(call'.parsed_entries, ExistsBefore)
           accepted == SelectSeq(call'.parsed_entries, NotExistsBefore)
       IN  /\ Len(result'.errors) = Len(call'.parsing_errors) + Len(rejected)
           /\ AppendedErrors =
                [k \in 1..Len(rejected) |->
                   call'.log_string_sg \o " '" \o rejected[k].code \o "' already exists"]
           /\ result'.created = Len(accepted)
           /\ result'.updated = 0
           /\ ItemsRowsKept
           /\ IF call'.dry_run THEN items' = items ELSE CreatedExactly(accepted)]_vars

\* C1 witness: a committing INSERT upload created one entry and rejected another
C1_Witness ==
  /\ call.op = "upload_simple_data"
  /\ call.strategy = STRATEGY_INSERT
  /\ ~call.dry_run
  /\ result.created = 1
  /\ result.sent = 2
  /\ Len(result.errors) = Len(call.parsing_errors) + 1
  /\ \E i \in 1..Len(writes) : writes[i].op = "create"

\* the valid row of the entry's code carries the entry's fields after the request
UpdatedTo(entry) ==
  \A i \in ValidIdsOf(items, entry.code) :
    /\ IsValid(items'[i])
    /\ \A f \in DOMAIN entry : items'[i][f] = entry[f]

\* C2: with strategy UPDATE, upload_simple_data rejects each candidate whose code
\* has no valid record with one error "<label> '<code>' does not exist" naming the
\* code of that candidate and creates nothing, updates the record of every other
\* candidate (unless dry run) and counts it in updated; created stays 0 and the
\* number of valid records is unchanged.
C2_UpdateOnly ==
  [][(Returns("upload_simple_data") /\ call'.strategy = STRATEGY_UPDATE) =>
       LET rejected == SelectSeq(call'.parsed_entries, NotExistsBefore)
           accepted == SelectSeq(call'.parsed_entries, ExistsBefore)
       IN  /\ Len(result'.errors) = Len(call'.parsing_errors) + Len(rejected)
           /\ AppendedErrors =
                [k \in 1..Len(rejected) |->
                   call'.log_string_sg \o " '" \o rejected[k].code \o "' does not exist"]
           /\ result'.updated = Len(accepted)
           /\ result'.created = 0
           /\ ValidIds(items') = ValidIds(items)
           /\ \A i \in NewItemIds : ~IsValid(items'[i])
           /\ IF call'.dry_run THEN items' = items
              ELSE \A k \in 1..Len(accepted) : UpdatedTo(accepted[k])]_vars

\* C2 witness: a committing UPDATE upload updated its first entry and rejected its
\* second one
C2_Witness ==
  /\ call.op = "upload_simple_data"
  /\ call.strategy = STRATEGY_UPDATE
  /\ ~call.dry_run
  /\ result.updated = 1
  /\ Len(call.parsed_entries) = 2
  /\ result.errors = call.parsing_errors
                       \o <<"Item '" \o call.parsed_entries[2].code \o "' does not exist">>
  /\ \E i \in 1..Len(writes) : writes[i].op = "save"

\* C3: with strategy INSERT_UPDATE, upload_simple_data rejects no candidate on
\* existence: every candidate whose code has a valid record is updated, every
\* other candidate is created, created + updated = sent, deleted = 0 and the
\* errors returned are the parser's errors unchanged.
C3_InsertUpdate ==
  [][(Returns("upload_simple_data") /\ call'.strategy = STRATEGY_INSERT_UPDATE) =>
       LET updated == SelectSeq(call'.parsed_entries, ExistsBefore)
           created == SelectSeq(call'.parsed_entries, NotExistsBefore)
       IN  /\ result'.errors = call'.parsing_errors
           /\ result'.sent = Len(call'.parsed_entries)
           /\ result'.created + result'.updated = result'.sent
           /\ result'.created = Len(created)
           /\ result'.updated = Len(updated)
           /\ result'.deleted = 0
           /\ IF call'.dry_run THEN items' = items
              ELSE /\ \A k \in 1..Len(updated) : UpdatedTo(updated[k])
                   /\ \A k \in 1..Len(created) :
                        \E i \in NewItemIds :
                          /\ IsValid(items'[i])
                          /\ \A f \in DOMAIN created[k] : items'[i][f] = created[k][f]]_vars

\* C3 witness: a committing INSERT_UPDATE upload updated one entry and created one
C3_Witness ==
  /\ call.op = "upload_simple_data"
  /\ call.strategy = STRATEGY_INSERT_UPDATE
  /\ ~call.dry_run
  /\ result.created = 1
  /\ result.updated = 1
  /\ \E i, j \in 1..Len(writes) : writes[i].op = "create" /\ writes[j].op = "save"

\* the codes of the entries of the request
CandidateCodes == {call'.parsed_entries[k].code : k \in 1..Len(call'.parsed_entries)}

\* the codes that have a valid row
ValidCodes(table) == {table[i].code : i \in ValidIds(table)}

\* C4: with strategy INSERT_UPDATE_DELETE, upload_simple_data updates and creates
\* as INSERT_UPDATE does and then soft-deletes every valid record whose code is
\* not a candidate code; deleted is the number of these records, and after a
\* committing run the codes that have a valid record are exactly the candidate codes.
C4_InsertUpdateDelete ==
  [][(Returns("upload_simple_data") /\ call'.strategy = STRATEGY_INSERT_UPDATE_DELETE) =>
       LET updated == SelectSeq(call'.parsed_entries, ExistsBefore)
           created == SelectSeq(call'.parsed_entries, NotExistsBefore)
           absent == {i \in ValidIds(items) : items[i].code \notin CandidateCodes}
       IN  /\ result'.errors = call'.parsing_errors
           /\ result'.created = Len(created)
           /\ result'.updated = Len(updated)
           /\ result'.deleted = Cardinality(absent)
           /\ IF call'.dry_run THEN items' = items
              ELSE /\ \A k \in 1..Len(updated) : UpdatedTo(updated[k])
                   /\ \A i \in absent :
                        /\ ~IsValid(items'[i])
                        /\ items'[i].code = items[i].code
                   /\ ValidCodes(items') = CandidateCodes]_vars

\* C4 witness: a committing INSERT_UPDATE_DELETE upload updated one record, created
\* one and archived one
C4_Witness ==
  /\ call.op = "upload_simple_data"
  /\ call.strategy = STRATEGY_INSERT_UPDATE_DELETE
  /\ ~call.dry_run
  /\ result.created = 1
  /\ result.updated = 1
  /\ result.deleted = 1
  /\ \E i \in 1..Len(writes) : writes[i].op = "update" /\ writes[i].ids # {}

\* C5: a dry run issues zero writes: whatever the strategy and however many
\* requests were served before, upload_simple_data, upload_locations and
\* upload_health_facilities with dry_run=True leave every table as it was (no row
\* created, no field changed, no history row, no validity_to set, no UserDistrict).
C5_DryRunWritesNothing ==
  [][(call = NoCall /\ call' # NoCall /\ call'.dry_run) =>
       (store' = store /\ writes' = <<>>)]_vars

\* C5 witness: a dry run that follows an earlier request counted a creation and
\* an update
C5_Witness ==
  /\ call # NoCall
  /\ call.dry_run
  /\ ncalls >= 2
  /\ result.created >= 1
  /\ result.updated >= 1

\* C6: upload_simple_data returns the same UploadResult (sent, created, updated,
\* deleted, errors) in a dry run and in a committing run started from the same
\* table with the same context, whenever both runs return.
C6_SimpleDryRunSameResult ==
  [][Returns("upload_simple_data") =>
       LET other == upload_simple_data(items, [call' EXCEPT !.dry_run = ~@])
       IN  other.raised = "none" => result' = other.res]_vars

\* C6 witness: a committing upload that wrote rows, archived a record and returned
\* an error
C6_Witness ==
  /\ call.op = "upload_simple_data"
  /\ ~call.dry_run
  /\ result.created + result.updated >= 1
  /\ result.deleted >= 1
  /\ result.errors # <<>>
  /\ writes # <<>>

\* C7: upload_locations returns the same sent, created and updated counts and the
\* same errors in a dry run and in a committing run started from the same tables
\* with the same document, also when the parent of a candidate is created by
\* that upload and the store accepts every write.
C7_LocationsDryRunSameResult ==
  [][(Serves("upload_locations") /\ call'.failing = NULL) =>
       LET other == upload_locations(locations, user_districts, parent_cache,
                                     [call' EXCEPT !.dry_run = ~@])
       IN  /\ raised' = other.raised
           /\ result'.sent = other.res.sent
           /\ result'.created = other.res.created
           /\ result'.updated = other.res.updated
           /\ result'.errors = other.res.errors]_vars

\* C8: at most one valid record per code: the items table and the locations
\* table, which start with at most one valid row per code and receive entries of
\* pairwise distinct codes, never hold two valid rows of one code.
C8_AtMostOneValidPerCode ==
  /\ \A i, j \in ValidIds(items) : items[i].code = items[j].code => i = j
  /\ \A i, j \in ValidIds(locations) : locations[i].code = locations[j].code => i = j

\* C8 witness: a committing upload_locations created a location and updated another
C8_Witness ==
  /\ call.op = "upload_locations"
  /\ ~call.dry_run
  /\ result.created = 1
  /\ result.updated = 1
  /\ Cardinality(ValidIds(locations)) >= 3

\* the entry is rejected on existence under the strategy of the request
RejectedBefore(entry) ==
  \/ call'.strategy = STRATEGY_INSERT /\ ExistsBefore(entry)
  \/ call'.strategy = STRATEGY_UPDATE /\ ~ExistsBefore(entry)

\* C9: partition invariant of upload_simple_data: sent is the number of
\* candidates, sent = created + updated + the number of candidates rejected with
\* an 'already exists' or 'does not exist' error, every candidate is exactly one
\* of rejected, created (one create), updated (one save), and errors holds at
\* least one entry per rejected candidate.
C9_Partition ==
  [][Returns("upload_simple_data") =>
       LET entries == call'.parsed_entries
           rejected == SelectSeq(entries, RejectedBefore)
           WritesFor(entry) ==
             {i \in 1..Len(writes') :
                writes'[i].op \in {"create", "save"} /\ writes'[i].row.code = entry.code}
       IN  /\ result'.sent = Len(entries)
           /\ result'.sent = result'.created + result'.updated + Len(rejected)
           /\ Len(AppendedErrors) = Len(rejected)
           /\ Len(result'.errors) >= Len(rejected)
           /\ \A k \in 1..Len(rejected) :
                AppendedErrors[k] \in
                  {AlreadyExists(call'.log_string_sg, rejected[k].code),
                   DoesNotExist(call'.log_string_sg, rejected[k].code)}
           /\ ~call'.dry_run =>
                /\ \A k \in 1..Len(entries) :
                     Cardinality(WritesFor(entries[k])) =
                       IF RejectedBefore(entries[k]) THEN 0 ELSE 1
                /\ result'.created =
                     Cardinality({i \in 1..Len(writes') : writes'[i].op = "create"})
                /\ result'.updated =
                     Cardinality({i \in 1..Len(writes') : writes'[i].op = "save"})]_vars

\* C9 witness: of two candidates one was rejected and one applied, after parser errors
C9_Witness ==
  /\ call.op = "upload_simple_data"
  /\ call.parsing_errors # <<>>
  /\ result.sent = 2
  /\ result.created + result.updated = 1
  /\ Len(result.errors) = Len(call.parsing_errors) + 1

\* the versioned table the request being served writes to, before and after it
TableBefore ==
  CASE call'.op = "upload_simple_data" -> items
    [] call'.op = "upload_locations" -> locations
    [] call'.op = "upload_health_facilities" -> health_facilities

TableAfter ==
  CASE call'.op = "upload_simple_data" -> items'
    [] call'.op = "upload_locations" -> locations'
    [] call'.op = "upload_health_facilities" -> health_facilities'

\* the columns save_history() copies unchanged
DataFields(row) == DOMAIN row \ {"validity_to", "legacy_id"}

\* C10: in a committing run of upload_simple_data, upload_locations or
\* upload_health_facilities every update of an existing record is preceded by
\* exactly one history snapshot of that record, taken before any field is
\* overwritten: the snapshot's fields are the record's fields immediately before
\* the change.
C10_HistoryBeforeUpdate ==
  [][(call = NoCall /\ call' # NoCall /\ ~call'.dry_run) =>
       LET w == writes'
           Saves == {i \in 1..Len(w) : w[i].op = "save"}
           Snapshots == {i \in 1..Len(w) : w[i].op = "save_history"}
           \* the record as stored immediately before the i-th write
           RowBefore(i, id) ==
             LET earlier == {j \in Saves : j < i /\ w[j].id = id}
             IN  IF earlier = {} THEN TableBefore[id] ELSE w[Max(earlier)].row
       IN  /\ \A i \in Saves :
                /\ w[i].id \in 1..Len(TableBefore)
                /\ i - 1 \in Snapshots
                /\ w[i - 1].row.legacy_id = w[i].id
                /\ ~IsValid(w[i - 1].row)
                /\ \A f \in DataFields(w[i - 1].row) :
                     w[i - 1].row[f] = RowBefore(i, w[i].id)[f]
                /\ w[i - 1].id \in (Len(TableBefore) + 1)..Len(TableAfter)
                /\ TableAfter[w[i - 1].id] = w[i - 1].row
           \* unless the store refused a save() after its snapshot was written
           /\ call'.failing = NULL =>
                /\ Cardinality(Snapshots) = Cardinality(Saves)
                /\ result'.updated = Cardinality(Saves)
           \* every record the loop changed was changed by a save
           /\ \A id \in 1..Len(TableBefore) :
                (IsValid(TableAfter[id]) /\ TableAfter[id] # TableBefore[id]) =>
                  \E i \in Saves : w[i].id = id]_vars

\* C10 witness: a committing upload_health_facilities updated one facility twice
C10_Witness ==
  /\ call.op = "upload_health_facilities"
  /\ ~call.dry_run
  /\ result.updated = 2
  /\ \E i, j \in 1..Len(writes) :
       /\ i < j
       /\ writes[i].op = "save"
       /\ writes[j].op = "save"
       /\ writes[i].id = writes[j].id

\* C11: in a committing run with strategy INSERT_UPDATE_DELETE, every record
\* archived by the sweep of upload_simple_data is preceded by exactly one history
\* snapshot of its pre-archive state: a save_history write issued before the
\* sweep's update, carrying the record's primary key as legacy_id and the fields
\* the record had.
C11_HistoryBeforeArchive ==
  [][(Returns("upload_simple_data") /\ ~call'.dry_run
        /\ call'.strategy = STRATEGY_INSERT_UPDATE_DELETE) =>
       LET w == writes'
           archived == {i \in ValidIds(items) : ~IsValid(items'[i])}
           SnapshotsOf(id, before) ==
             {j \in 1..(before - 1) :
                /\ w[j].op = "save_history"
                /\ w[j].row.legacy_id = id
                /\ \A f \in DataFields(items[id]) : w[j].row[f] = items[id][f]}
       IN  \A id \in archived :
             \E k \in 1..Len(w) :
               /\ w[k].op = "update"
               /\ id \in w[k].ids
               /\ Cardinality(SnapshotsOf(id, k)) = 1]_vars

\* C12: every mutation of a committing upload_simple_data carries the acting
\* user's audit stamp: each record the run created, each record it updated and
\* each record it archived has audit_user_id = user.id_for_audit after the run.
C12_AuditStamp ==
  [][(Returns("upload_simple_data") /\ ~call'.dry_run) =>
       LET w == writes'
           created == {w[k].id : k \in {j \in 1..Len(w) : w[j].op = "create"}}
           updated == {w[k].id : k \in {j \in 1..Len(w) : w[j].op = "save"}}
           archived == {i \in ValidIds(items) : ~IsValid(items'[i])}
       IN  \A i \in created \cup updated \cup archived :
             items'[i].audit_user_id = call'.user]_vars

\* the rows a table held are all still there, a row that was invalid is unchanged
\* and a row that stopped being valid only had validity_to set to a timestamp
\* (and its audit stamp written)
OnlyGrows(before, after) ==
  /\ Len(after) >= Len(before)
  /\ \A i \in 1..Len(before) :
       /\ after[i].code = before[i].code
       /\ ~IsValid(before[i]) => after[i] = before[i]
       /\ (IsValid(before[i]) /\ ~IsValid(after[i])) =>
            /\ after[i].validity_to # NULL
            /\ \A f \in DOMAIN before[i] \ {"validity_to", "audit_user_id"} :
                 after[i][f] = before[i][f]

\* C13: no upload operation ever removes a row: across any sequence of
\* upload_simple_data, upload_locations and upload_health_facilities calls the
\* stored rows only grow in number, and a deletion is only a change of
\* validity_to from unset to a timestamp on a row that stays in the store.
C13_NoHardDelete ==
  [][/\ OnlyGrows(items, items')
     /\ OnlyGrows(locations, locations')
     /\ OnlyGrows(health_facilities, health_facilities')
     /\ Len(user_districts') >= Len(user_districts)
     /\ SubSeq(user_districts', 1, Len(user_districts)) = user_districts]_vars

\* C13 witness: the sweep of a committing INSERT_UPDATE_DELETE upload archived a
\* record, which is still stored with the timestamp of the request
C13_Witness ==
  /\ call.op = "upload_simple_data"
  /\ ~call.dry_run
  /\ result.deleted >= 1
  /\ \E i \in 1..Len(items) :
       /\ items[i].validity_to = call.now
       /\ items[i].legacy_id = 0
       /\ \E k \in 1..Len(writes) : writes[k].op = "update" /\ i \in writes[k].ids

\* C14: the health-facility upload never applies two entries of one upload that
\* carry the same code: after a committing upload_health_facilities with INSERT
\* or INSERT_UPDATE, a code of the file that had no valid facility before the
\* request has at most one valid facility.
C14_FacilitiesNoDuplicateApplied ==
  [][(Returns("upload_health_facilities") /\ ~call'.dry_run
        /\ call'.strategy \in {STRATEGY_INSERT, STRATEGY_INSERT_UPDATE}) =>
       LET raw == load_health_facilities_xml(call'.xml).result
       IN  \A k \in 1..Len(raw) :
             ValidIdsOf(health_facilities, raw[k].code) = {} =>
               Cardinality(ValidIdsOf(health_facilities', raw[k].code)) <= 1]_vars

\* the parsers, and the elements of the document of a parser call
Parsers ==
  {"load_diagnoses_xml", "parse_xml_items", "parse_xml_services", "load_locations_xml"}

ElementsOf(c) == IF c.op = "load_locations_xml" THEN AllLocations(c.xml) ELSE c.xml

\* what the parser of the call holds after the first k elements of the document
ParsedPrefix(c, k) ==
  LET elms == SubSeq(ElementsOf(c), 1, k)
      acc0 == [result |-> <<>>, errors |-> <<>>, raised |-> "none"]
  IN  CASE c.op = "load_diagnoses_xml" -> LoadDiagnosesLoop(acc0, elms, 1)
        [] c.op = "parse_xml_items" -> ParseItemsLoop(acc0, elms, 1)
        [] c.op = "parse_xml_services" -> ParseServicesLoop(acc0, elms, 1)
        [] c.op = "load_locations_xml" ->
             LoadLocationsLoop(
               [result |-> [t \in {"R", "D", "W", "V"} |-> <<>>], keys |-> <<>>,
                errors |-> <<>>, ids |-> <<>>, raised |-> "none"], elms, 1)

\* the candidates a parser state holds, as one list
Candidates(c, acc) ==
  IF c.op = "load_locations_xml" THEN ChainValues(acc.result, acc.keys, 1) ELSE acc.result

\* C15: the candidate lists returned by load_diagnoses_xml, parse_xml_items,
\* parse_xml_services and load_locations_xml never contain two codes that are
\* equal ignoring case: an accepted entry stays in the list, and every later
\* element whose code matches an accepted one case-insensitively is dropped with
\* exactly one error for it.
C15_ParsersDropDuplicates ==
  [][(call = NoCall /\ call'.op \in Parsers /\ raised' = "none") =>
       LET elms == ElementsOf(call')
           final == Candidates(call', result')
       IN  /\ result' = ParsedPrefix(call', Len(elms))
           /\ \A i, j \in 1..Len(final) :
                Lower(final[i].code) = Lower(final[j].code) => i = j
           /\ \A k \in 1..Len(elms) :
                LET before == ParsedPrefix(call', k - 1)
                    after == ParsedPrefix(call', k)
                    kept == Candidates(call', before)
                    now == Candidates(call', after)
                IN  /\ \A i \in 1..Len(kept) : \E j \in 1..Len(now) : now[j] = kept[i]
                    /\ AnyCodeIgnoringCase(kept, elms[k].code) =>
                         /\ now = kept
                         /\ Len(after.errors) = Len(before.errors) + 1]_vars

\* C16: in upload_health_facilities a facility whose district code matches no
\* valid location does not abort the batch: the call returns its UploadResult
\* instead of raising, the facility is skipped with one error appended and every
\* later facility of the upload is still processed (sent counts them all and
\* each is created, updated or reported).
C16_UnknownDistrictSkipped ==
  [][Serves("upload_health_facilities") =>
       LET loaded == load_health_facilities_xml(call'.xml)
           raw == loaded.result
           Unknown(k) ==
             /\ Has(raw[k], "district_code")
             /\ ValidIdsOf(locations, raw[k].district_code) = {}
       IN  (/\ loaded.raised = "none"
            /\ \A k \in 1..Len(raw) : Has(raw[k], "district_code")
            /\ \E k \in 1..Len(raw) : Unknown(k)) =>
             /\ raised' = "none"
             /\ result'.sent = Len(raw)
             /\ result'.created + result'.updated
                  + (Len(result'.errors) - Len(loaded.errors)) = Len(raw)]_vars

\* the three upload operations
UploadOps == {"upload_simple_data", "upload_locations", "upload_health_facilities"}

\* C17: in every upload operation a storage error raised by the create or save
\* of one record in a committing run is caught for that record: the call returns
\* its UploadResult instead of raising the storage error, the record is counted
\* neither in created nor in updated (these count the writes that succeeded) and
\* one error is recorded for it.
C17_StorageErrorCaught ==
  [][(call = NoCall /\ call'.op \in UploadOps /\ ~call'.dry_run
        /\ call'.failing # NULL) =>
       LET w == writes'
           dry == CASE call'.op = "upload_simple_data" ->
                         upload_simple_data(items, [call' EXCEPT !.dry_run = TRUE])
                    [] call'.op = "upload_locations" ->
                         upload_locations(locations, user_districts, parent_cache,
                                          [call' EXCEPT !.dry_run = TRUE])
                    [] call'.op = "upload_health_facilities" ->
                         upload_health_facilities(
                           health_facilities, pricelist_cache,
                           [call' EXCEPT !.dry_run = TRUE]
                             @@ [locations |-> locations, pricelists |-> pricelists,
                                 parent_cache |-> parent_cache])
       IN  /\ raised' # "IntegrityError"
           /\ raised' = "none" =>
                /\ result'.sent = dry.res.sent
                /\ result'.created =
                     Cardinality({i \in 1..Len(w) : w[i].op = "create"})
                /\ result'.updated =
                     Cardinality({i \in 1..Len(w) : w[i].op = "save"})
                /\ \A i \in 1..Len(w) :
                     w[i].op \in {"create", "save"} => w[i].row.code # call'.failing]_vars

\* the existence error upload_simple_data returns for a rejected candidate
ExistenceError(entry) ==
  IF call'.strategy = STRATEGY_INSERT
    THEN AlreadyExists(call'.log_string_sg, entry.code)
    ELSE DoesNotExist(call'.log_string_sg, entry.code)

\* C18: error ordering in upload_simple_data: the returned errors list starts with
\* the parser-stage errors in their original order, followed by the
\* reconciliation-stage errors in the order of their candidates in the input
\* list; no error is removed or reordered.
C18_ErrorOrdering ==
  [][Returns("upload_simple_data") =>
       LET rejected == SelectSeq(call'.parsed_entries, RejectedBefore)
       IN  result'.errors =
             call'.parsing_errors
               \o [k \in 1..Len(rejected) |-> ExistenceError(rejected[k])]]_vars

\* C18 witness: a request with a parser error returned it first, then the
\* errors of its two rejected candidates
C18_Witness ==
  /\ call.op = "upload_simple_data"
  /\ raised = "none"
  /\ call.parsing_errors # <<>>
  /\ Len(call.parsed_entries) = 2
  /\ Len(result.errors) = Len(call.parsing_errors) + 2
  /\ result.errors[1] = call.parsing_errors[1]
  /\ result.errors[Len(result.errors)] =
       DoesNotExist(call.log_string_sg, call.parsed_entries[2].code)

\* C19: an update is a shallow merge: after a committing update of an existing
\* record by upload_simple_data, every field named in the candidate has the
\* candidate's value and every field of the record the candidate does not name
\* has the value it had before the update.
C19_ShallowMerge ==
  [][(Returns("upload_simple_data") /\ ~call'.dry_run
        /\ call'.strategy # STRATEGY_INSERT) =>
       \A k \in 1..Len(call'.parsed_entries) :
         LET entry == call'.parsed_entries[k]
         IN  \A i \in ValidIdsOf(items, entry.code) :
               /\ \E j \in 1..Len(writes') :
                    writes'[j].op = "save" /\ writes'[j].id = i
               /\ \A f \in DOMAIN entry : items'[i][f] = entry[f]
               /\ \A f \in DOMAIN items[i] \ DOMAIN entry :
                    items'[i][f] = items[i][f]]_vars

\* C19 witness: a committing update with a candidate that names no frequency
\* changed the name of a record and left its frequency as it was
C19_Witness ==
  /\ call.op = "upload_simple_data"
  /\ ~call.dry_run
  /\ raised = "none"
  /\ result.updated >= 1
  /\ \E k \in 1..Len(call.parsed_entries), j \in 1..Len(writes) :
       /\ "frequency" \notin DOMAIN call.parsed_entries[k]
       /\ writes[j].op = "save"
       /\ writes[j].row.code = call.parsed_entries[k].code
       /\ items[writes[j].id].name = call.parsed_entries[k].name
       /\ items[writes[j].id].frequency = "f0"

RECURSIVE Concat(_, _)
\* the lists of a list of lists joined, from the i-th on
Concat(lists, i) == IF i > Len(lists) THEN <<>> ELSE lists[i] \o Concat(lists, i + 1)

\* C20: chunked existence lookup in upload_locations: the code-to-record map
\* built by querying the candidate codes in consecutive chunks of at most the
\* chunk size and merging the results equals the map of one unbounded query over
\* all candidate codes, for every number of codes (zero, fewer than one chunk, an
\* exact multiple of the size, more than two chunks), and no chunk carries more
\* codes than the chunk size.
C20_ChunkedLookup ==
  [][(call = NoCall /\ call'.op = "__chunk_list") =>
       LET ids == call'.ids
           chunks == result'.chunks
       IN  /\ result'.existing_locations =
                FetchByCode(locations, {ids[k] : k \in 1..Len(ids)})
           /\ \A c \in 1..Len(chunks) :
                Len(chunks[c]) >= 1 /\ Len(chunks[c]) <= call'.size
           /\ Concat(chunks, 1) = ids
           /\ Len(chunks) = (Len(ids) + call'.size - 1) \div call'.size]_vars

\* C20 witness: five codes were looked up in three chunks of at most two codes and
\* two of them were found
C20_Witness ==
  /\ call.op = "__chunk_list"
  /\ Len(call.ids) = 5
  /\ call.size = 2
  /\ Len(result.chunks) = 3
  /\ Len(result.chunks[3]) = 1
  /\ DOMAIN result.existing_locations = {"R1", "D1"}

\* C21: the parent-location memo does not leak between uploads: every call of
\* upload_locations and of upload_health_facilities clears the
\* get_parent_location memo before its first parent lookup, so the call's result,
\* its writes and the memo it leaves are those of the same call started with an
\* empty memo, whatever the earlier calls memoized.
C21_ParentMemoCleared ==
  [][/\ Returns("upload_locations") =>
          LET fresh == upload_locations(locations, user_districts, EmptyCache, call')
          IN  /\ result' = fresh.res
              /\ locations' = fresh.rows
              /\ parent_cache' = fresh.cache
     /\ Serves("upload_health_facilities") =>
          LET fresh == upload_health_facilities(
                         health_facilities, pricelist_cache,
                         call' @@ [locations |-> locations, pricelists |-> pricelists,
                                   parent_cache |-> EmptyCache])
          IN  /\ result' = fresh.res
              /\ raised' = fresh.raised
              /\ health_facilities' = fresh.rows
              /\ parent_cache' = fresh.cache]_vars

\* C21 witness: a committing upload_locations that follows another request
\* looked up the region it created itself and put a district under it
C21_Witness ==
  /\ call.op = "upload_locations"
  /\ ~call.dry_run
  /\ ncalls >= 2
  /\ raised = "none"
  /\ result.created >= 1
  /\ "R2" \in DOMAIN parent_cache
  /\ parent_cache["R2"] > Len(SeedLocations)
  /\ \E i \in ValidIds(locations) :
       locations[i].code = "D2" /\ locations[i].parent = parent_cache["R2"]

\* C22: the pricelist memo does not leak between uploads: across any sequence of
\* upload_health_facilities calls with store changes in between, every
\* get_pricelist lookup of a call returns the valid pricelist of that name as
\* stored at the time of the call, so the call's result and the rows it writes
\* are those of the same call started with an empty pricelist memo.
C22_PricelistMemoFresh ==
  [][Serves("upload_health_facilities") =>
       LET fresh == upload_health_facilities(
                      health_facilities, EmptyPricelistCache,
                      call' @@ [locations |-> locations, pricelists |-> pricelists,
                                parent_cache |-> parent_cache])
       IN  /\ result' = fresh.res
           /\ raised' = fresh.raised
           /\ health_facilities' = fresh.rows]_vars

\* the request whose loop and sweep run in this step
Applies(r) == call = NoCall /\ r \in inflight /\ inflight' = inflight \ {r} /\ call' = r.ctx

\* C23: uploads are not guarded against each other. A committing request with an
\* insert-capable strategy creates every candidate code its own existence lookup
\* did not find, whatever other requests wrote in between: the valid records of
\* the code that are in the table when its loop starts stay valid and a new valid
\* record is added, so two requests that both looked up a new code before either
\* created it leave two valid records of it.
C23_RaceCreatesTwice ==
  [][\A r \in inflight :
       (/\ Applies(r)
        /\ ~r.ctx.dry_run
        /\ r.ctx.strategy # STRATEGY_UPDATE
        /\ raised' = "none")
       => \A k \in 1..Len(r.ctx.parsed_entries) :
            LET c == r.ctx.parsed_entries[k].code
            IN  c \notin DOMAIN r.db
                => /\ ValidIdsOf(items, c) \subseteq ValidIdsOf(items', c)
                   /\ \E i \in NewItemIds : IsValid(items'[i]) /\ items'[i].code = c
                   /\ (ValidIdsOf(items, c) # {}
                         => Cardinality(ValidIdsOf(items', c)) >= 2)]_vars

\* two requests of one candidate each, by different users, both created the code
\* "B": the table holds two valid records of it, one by each user
C23_Witness ==
  /\ call.op = "upload_simple_data"
  /\ Len(call.parsed_entries) = 1
  /\ call.parsed_entries[1].code = "B"
  /\ \E i, j \in ValidIdsOf(items, "B") :
       /\ items[i].audit_user_id = 1
       /\ items[j].audit_user_id = 2
       /\ \E k \in 1..Len(writes) : writes[k].op = "create" /\ writes[k].id = j

\* C24: with row security on, a claim whose health-facility code matches no valid
\* health facility in one of the user's districts is refused with InvalidXMLError
\* "User cannot upload claims for health facility <code>"; the stored procedure is
\* not executed and no table changes.
C24_RowSecurityRefuses ==
  [][(/\ Serves("upload_claim")
      /\ call'.row_security
      /\ "HFCode" \in DOMAIN call'.xml
      /\ ~\E i \in ValidIdsOf(health_facilities, call'.xml.HFCode) :
            \E k \in 1..Len(user_districts) :
              /\ user_districts[k].user = call'.user
              /\ user_districts[k].location = health_facilities[i].location)
     => /\ raised' = "InvalidXMLError"
        /\ result'.error =
             "User cannot upload claims for health facility " \o call'.xml.HFCode
        /\ writes' = <<>>
        /\ store' = store]_vars

\* user 2, who has no district, was refused a claim for the facility H1, which
\* exists in the district of user 1
C24_Witness ==
  /\ call.op = "upload_claim"
  /\ call.row_security
  /\ call.user = 2
  /\ "HFCode" \in DOMAIN call.xml
  /\ call.xml.HFCode = "H1"
  /\ ValidIdsOf(health_facilities, "H1") # {}
  /\ raised = "InvalidXMLError"
  /\ writes = <<>>

\* C28: when the stored procedure hands back a result code, upload_claim returns
\* True exactly for the code 0 and raises InvalidXMLError for every other code.
C28_NonZeroCodeRaises ==
  [][(/\ Serves("upload_claim")
      /\ writes' # <<>>
      /\ result'.res.description)
     => /\ (result'.returned = "True" <=> result'.res.ret = 0)
        /\ (result'.res.ret # 0 => raised' = "InvalidXMLError")]_vars

\* C25: return_upload_result_json takes exactly one kind of result. It raises
\* RuntimeError when both an XML result and a result of another type are given
\* and when neither is; for an XML UploadResult alone the data carry its sent,
\* created, updated and deleted, with skipped, invalid and failed 0, and the
\* errors are the result's error list in its order.
C25_OneKindOfResult ==
  [][Serves("return_upload_result_json") =>
       LET xml == call'.xml_result
           other == call'.other_types_result
       IN  /\ ((xml # None) = (other # None)) <=> raised' = "RuntimeError"
           /\ (xml # None /\ other = None) =>
                /\ raised' = "none"
                /\ result'.response.success = call'.success
                /\ \A f \in {"sent", "created", "updated", "deleted"} :
                     result'.response.data[f] = xml[f]
                /\ \A f \in {"skipped", "invalid", "failed"} :
                     result'.response.data[f] = 0
                /\ DOMAIN result'.response.data =
                     {"sent", "created", "updated", "deleted", "skipped", "invalid", "failed"}
                /\ result'.response.errors = xml.errors]_vars

\* an XML result with two errors and non-zero counts was rendered
C25_Witness ==
  /\ call.op = "return_upload_result_json"
  /\ call.xml_result # None
  /\ call.other_types_result = None
  /\ Len(call.xml_result.errors) = 2
  /\ call.xml_result.sent = 2
  /\ raised = "none"
  /\ result.response.data.sent = 2

\* the dataset's rows whose import fails, with their numbers
FailingRowNumbers(dataset) ==
  {i \in 1..Len(dataset) : ImportRowCheck(dataset[i]).kind # "ok"}

\* C26: the spreadsheet import always runs a dry run first; the committing import
\* runs exactly when the dry run had neither row errors nor validation errors;
\* otherwise nothing is committed, success is false and there is one error message
\* per invalid or failed row; the counts returned are those of the dry run.
C26_TwoPhaseImport ==
  [][Serves("process_import_items_services") =>
       LET dataset == call'.dataset
           bad == FailingRowNumbers(dataset)
           dry == import_data(items, dataset, call'.user, TRUE).result
       IN  /\ Len(writes') >= 1
           /\ writes'[1] = [op |-> "import_data", dry_run |-> TRUE]
           /\ \A k \in 2..Len(writes') : ~writes'[k].dry_run
           /\ Len(writes') = (IF bad = {} THEN 2 ELSE 1)
           /\ bad # {} => /\ items' = items
                          /\ ~result'.response.success
                          /\ Len(result'.response.errors) = Cardinality(bad)
                          /\ \A i \in bad : \E k \in 1..Len(result'.response.errors) :
                               result'.response.errors[k] =
                                 "row (" \o ToString(i) \o ") - "
                                   \o ImportRowCheck(dataset[i]).message
           /\ bad = {} => result'.response.success /\ result'.response.errors = <<>>
           /\ result'.response.data = OtherTypesData(dry)]_vars

\* a dataset with a good row for a new code and an invalid row was refused:
\* nothing was written and the good row is counted as created
C26_Witness ==
  /\ call.op = "process_import_items_services"
  /\ Len(call.dataset) = 2
  /\ call.dataset[1].code = "B"
  /\ call.dataset[2].code = "ABCDEFG"
  /\ ~result.response.success
  /\ result.response.data.created = 1
  /\ result.response.data.invalid = 1
  /\ ValidIdsOf(items, "B") = {}
  /\ Len(writes) = 1

\* C27: upload_locations handles every location after the locations of its parent
\* level, so that in a committing upload no candidate is rejected with
\* "Parent <code> does not exist" when that parent is created by the same upload.
C27_ParentsBeforeChildren ==
  [][(/\ Returns("upload_locations")
      /\ ~call'.dry_run
      /\ call'.failing = NULL)
     => \A k \in 1..Len(AllLocations(call'.xml)) :
          LET elm == AllLocations(call'.xml)[k]
          IN  (/\ "parent" \in DOMAIN elm
               /\ ValidIdsOf(locations, elm.parent) = {}
               /\ ValidIdsOf(locations', elm.parent) # {})
              => ~\E e \in 1..Len(result'.errors) :
                    result'.errors[e] = "Parent " \o elm.parent \o " does not exist"]_vars

\* the codes of the candidates parse_xml_items keeps of a document
ParsedCodes(xml) ==
  {parse_xml_items(xml).result[k].code : k \in 1..Len(parse_xml_items(xml).result)}

\* C29: under INSERT_UPDATE_DELETE the sweep spares exactly the codes of the parsed
\* candidates. Every valid record of another code, the record of an element the
\* parser rejected included, is counted in deleted and archived by a committing
\* run; the valid records of the candidates' codes stay valid.
C29_SweepSparesCandidatesOnly ==
  [][(/\ Returns("upload_items")
      /\ call'.strategy = STRATEGY_INSERT_UPDATE_DELETE)
     => LET swept == {i \in ValidIds(items) : items[i].code \notin ParsedCodes(call'.xml)}
        IN  /\ result'.deleted = Cardinality(swept)
            /\ ~call'.dry_run =>
                 /\ \A i \in swept : items'[i].validity_to = call'.now
                 /\ \A i \in ValidIds(items) \ swept : IsValid(items'[i])
                 /\ \A k \in 1..Len(writes') :
                      writes'[k].op = "create" => IsValid(items'[writes'[k].id])
            /\ call'.dry_run => items' = items]_vars

\* a committing INSERT_UPDATE_DELETE upload whose only mention of the code "A" is
\* an element the parser rejected archived the valid record of "A" and reports
\* both the parsing error and the deletion
C29_Witness ==
  /\ call.op = "upload_items"
  /\ call.strategy = STRATEGY_INSERT_UPDATE_DELETE
  /\ ~call.dry_run
  /\ raised = "none"
  /\ \E k \in 1..Len(call.xml) : call.xml[k].code = "A"
  /\ "A" \notin ParsedCodes(call.xml)
  /\ Len(result.errors) >= 1
  /\ result.deleted >= 1
  /\ ValidIdsOf(items, "A") = {}
  /\ \E i \in 1..Len(items) : items[i].code = "A" /\ items[i].validity_to = call.now

\* the request left valid every row that was valid in the table
NoRowArchived(before, after) ==
  /\ Len(after) >= Len(before)
  /\ \A i \in ValidIds(before) : IsValid(after[i])

\* every create() of the request is for a code that had no valid record when the
\* request started, every save() for a record that was valid then
WritesFollowExistence(before) ==
  \A k \in 1..Len(writes') :
    /\ writes'[k].op = "create" => ValidIdsOf(before, writes'[k].row.code) = {}
    /\ writes'[k].op = "save" => writes'[k].id \in ValidIds(before)

\* C30: upload_locations and upload_health_facilities never archive. Under every
\* strategy, INSERT_UPDATE_DELETE included, no valid record loses its validity
\* and deleted is 0; a candidate is created when its code had no valid record and
\* updated otherwise, INSERT_UPDATE_DELETE behaving as INSERT_UPDATE. The views of
\* locations and health facilities accept INSERT, UPDATE and INSERT_UPDATE only,
\* those of diagnoses, items and services also INSERT_UPDATE_DELETE.
C30_NoArchivingOfLocationsAndFacilities ==
  [][/\ Serves("upload_locations") =>
          LET alt == upload_locations(locations, user_districts, parent_cache,
                                      [call' EXCEPT !.strategy = STRATEGY_INSERT_UPDATE])
          IN  /\ NoRowArchived(locations, locations')
              /\ result'.deleted = 0
              /\ WritesFollowExistence(locations)
              /\ call'.strategy = STRATEGY_INSERT_UPDATE_DELETE =>
                   /\ locations' = alt.rows
                   /\ user_districts' = alt.uds
                   /\ result' = alt.res
                   /\ raised' = alt.raised
              /\ AcceptedStrategies("upload_locations") =
                   Strategies \ {STRATEGY_INSERT_UPDATE_DELETE}
     /\ Serves("upload_health_facilities") =>
          LET alt == upload_health_facilities(
                       health_facilities, pricelist_cache,
                       [call' EXCEPT !.strategy = STRATEGY_INSERT_UPDATE]
                         @@ [locations |-> locations, pricelists |-> pricelists,
                             parent_cache |-> parent_cache])
          IN  /\ NoRowArchived(health_facilities, health_facilities')
              /\ result'.deleted = 0
              /\ WritesFollowExistence(health_facilities)
              /\ call'.strategy = STRATEGY_INSERT_UPDATE_DELETE =>
                   /\ health_facilities' = alt.rows
                   /\ result' = alt.res
                   /\ raised' = alt.raised
              /\ AcceptedStrategies("upload_health_facilities") =
                   Strategies \ {STRATEGY_INSERT_UPDATE_DELETE}
     /\ \A e \in UploadEndpoints \ {"upload_locations", "upload_health_facilities"} :
          AcceptedStrategies(e) = Strategies]_vars

\* a committing INSERT_UPDATE_DELETE upload of locations that names one seeded
\* location only updated it and left the other seeded location valid
C30_Witness ==
  /\ call.op = "upload_locations"
  /\ call.strategy = STRATEGY_INSERT_UPDATE_DELETE
  /\ ~call.dry_run
  /\ raised = "none"
  /\ result.updated = 1
  /\ result.created = 0
  /\ result.deleted = 0
  /\ ValidIdsOf(locations, "R1") # {}
  /\ ValidIdsOf(locations, "D1") # {}
  /\ \E k \in 1..Len(writes) : writes[k].op = "save" /\ writes[k].row.code = "D1"
====
